---- MODULE Spec2Model ----
(***************************************************************************)
(* State/computation engine of the OKR tracker (extended variant of        *)
(* src/app.js, lines 848 onwards): the in-memory Document `data`, the      *)
(* progress calculator, the weight balancer, the history log and the       *)
(* snapshot recorder.                                                      *)
(*                                                                         *)
(* Conventions                                                             *)
(*  - A "store" s is the record [objectives, history, nextId]: the two     *)
(*    fields of the global `data` plus the source of fresh ids used by     *)
(*    generateId().  Every function of the source that reads or writes     *)
(*    `data` is an operator from stores to stores.                         *)
(*  - A JavaScript number that may be NaN or infinite is a record          *)
(*    [k, v] with k in {"num", "nan", "ninf"} (+Infinity only ever occurs  *)
(*    under Math.min(100, ...), which turns it into 100).                  *)
(*  - A value logged in a field diff is a record [t, s, n] (string or      *)
(*    number).                                                             *)
(*  - The objective form fields year, quarter, purpose, startDate,         *)
(*    targetDate, lastCheckin and the key-result form fields startDate,    *)
(*    targetDate, status, lastCheckin, evidence, comments are copied and   *)
(*    diffed by the source exactly as `title` is; the model carries title  *)
(*    and group (objective) and title and confidence (key result).         *)
(*  - The file behind fileHandle and the cache entry are texts (see        *)
(*    Persistence); `file` is the text of the open file, saveOutcome what  *)
(*    the last write did, fileStatus what the file-name indicator shows,   *)
(*    and trends the chart of the progress-trends modal.                   *)
(*  - Three specifications share the variables.  Spec runs the handlers    *)
(*    one at a time, each to its end.  AsyncSpec runs them as the event    *)
(*    loop does, with saves in flight (pending, started, origin).          *)
(*    RenderSpec draws the objective cards (page) for the target dates,    *)
(*    progress values, times of day and time zones (zone) of its sets;     *)
(*    there the objectives also carry their targetDate.                    *)
(*  - The baseline variant of the handlers (lines 1-847) is translated     *)
(*    next to the extended one, for the comparison of the two.             *)
(***************************************************************************)
EXTENDS Integers, Sequences, FiniteSets, TLC

VARIABLES data, fileHandle, nextId, clock, steps, booted,
          file, saveOutcome, fileStatus, trends,
          pending, started, origin, zone, page

vars == <<data, fileHandle, nextId, clock, steps, booted,
          file, saveOutcome, fileStatus, trends,
          pending, started, origin, zone, page>>

(***************************************************************************)
(* Bounds of the model.                                                    *)
(***************************************************************************)
MaxSteps == 1
MaxObjectives == 3
MaxKRs == 3
TicksPerDay == 2

(***************************************************************************)
(* Program constants.                                                      *)
(***************************************************************************)
HistoryCap == 1000
TotalWeight == 100
StepDelta == 10

(***************************************************************************)
(* Inputs.                                                                 *)
(***************************************************************************)
\* <<title, group>> of a submitted objective form.
ObjectiveForms == {<<"A", "Personal">>, <<"B", "Personal">>, <<"B", "Team">>}
\* <<title, target, confidence>> of a submitted key-result form; the target
\* is parseInt of a non-empty string.
KRForms == {<<"A", 80, "Medium">>, <<"B", 5, "High">>, <<"A", 0, "Medium">>,
            <<"B", -10, "High">>}
\* parseInt of the weight field.
WeightInputs == {35, 150}
Deltas == {StepDelta, -StepDelta}
NullGroup == "null"

\* The value of a property an object does not have.
Undefined == "undefined"

\* `value || default` for a string value.
OrDefault(value, default) ==
    IF value = Undefined \/ value = "" THEN default ELSE value

\* `kr.confidence || 'Medium'`, the value the edit form is opened with.
PrefilledConfidence(confidence) == OrDefault(confidence, "Medium")
NoId == ""

(***************************************************************************)
(* Generic helpers.                                                        *)
(***************************************************************************)
Min(a, b) == IF a <= b THEN a ELSE b
Max(a, b) == IF a >= b THEN a ELSE b
Abs(a) == IF a < 0 THEN -a ELSE a

RECURSIVE SumSeq(_)
SumSeq(q) == IF q = <<>> THEN 0 ELSE Head(q) + SumSeq(Tail(q))

RECURSIVE Gcd(_, _)
Gcd(a, b) == IF b = 0 THEN a ELSE Gcd(b, a % b)

\* The least common multiple of a sequence of positive integers.
RECURSIVE LcmSeq(_)
LcmSeq(q) ==
    IF q = <<>> THEN 1
    ELSE LET rest == LcmSeq(Tail(q))
         IN (Head(q) \div Gcd(Head(q), rest)) * rest

\* Array.prototype.find by id, as an index: the first position whose element
\* has the id, 0 if there is none (find returns undefined).
IndexOfId(q, id) ==
    LET hits == {i \in 1..Len(q) : q[i].id = id}
    IN IF hits = {} THEN 0 ELSE CHOOSE i \in hits : \A j \in hits : i <= j

\* Math.floor(a / b) for b > 0.
FloorDiv(a, b) == a \div b

\* Math.round(n / d) for d > 0: the nearest integer, halves towards +infinity.
RoundDiv(n, d) == (2 * n + d) \div (2 * d)

(***************************************************************************)
(* JavaScript numbers.                                                     *)
(***************************************************************************)
Num(v) == [k |-> "num", v |-> v]
NaN == [k |-> "nan", v |-> 0]
NegInf == [k |-> "ninf", v |-> 0]

\* String(x) as template literals print it.
NumToString(x) ==
    CASE x.k = "num" -> ToString(x.v)
      [] x.k = "nan" -> "NaN"
      [] OTHER -> "-Infinity"

\* Values logged in a field diff.
StrVal(str) == [t |-> "string", s |-> str, n |-> 0]
NumVal(num) == [t |-> "number", s |-> "", n |-> num]

\* generateId(): a string no earlier call returned; n counts the calls.
generateId(n) == "id" \o ToString(n)

(***************************************************************************)
(* Progress calculator.                                                    *)
(***************************************************************************)
Sign(a) == IF a < 0 THEN -1 ELSE 1

\* Math.min(100, Math.round((current / target) * 100)), the key-result
\* percentage computed inline by recordProgressSnapshot and updateKR.
krProgress(current, target) ==
    IF target = 0
    THEN (IF current = 0 THEN NaN ELSE IF current > 0 THEN Num(100) ELSE NegInf)
    ELSE Num(Min(100, RoundDiv(100 * current * Sign(target), Abs(target))))

\* The sum over the key results of (kr.current / kr.target) * 100 as the
\* exact fraction RatioNum / RatioDen, when no target is 0.
RatioDen(krs) == LcmSeq([i \in 1..Len(krs) |-> Abs(krs[i].target)])
RatioNum(krs) ==
    SumSeq([i \in 1..Len(krs) |->
              100 * krs[i].current * Sign(krs[i].target)
                  * (RatioDen(krs) \div Abs(krs[i].target))])

\* calculateProgress averaging the key results' rounded, capped percentages
\* instead of the raw ratios.
calculateProgress_RoundsEach(objective) ==
    LET krs == objective.keyResults
        n == Len(krs)
        zeroT == {i \in 1..n : krs[i].target = 0}
        hasNaN == \E i \in zeroT : krs[i].current = 0
        hasPos == \E i \in zeroT : krs[i].current > 0
        hasNeg == \E i \in zeroT : krs[i].current < 0
    IN IF n = 0 THEN Num(0)
       ELSE IF hasNaN \/ (hasPos /\ hasNeg) THEN NaN
       ELSE IF hasPos THEN Num(100)
       ELSE IF hasNeg THEN NegInf
       ELSE Num(Min(100, RoundDiv(
               SumSeq([i \in 1..n |-> krProgress(krs[i].current, krs[i].target).v]),
               n)))

calculateProgress(objective) ==
    LET krs == objective.keyResults
        n == Len(krs)
        zeroT == {i \in 1..n : krs[i].target = 0}
        hasNaN == \E i \in zeroT : krs[i].current = 0
        hasPos == \E i \in zeroT : krs[i].current > 0
        hasNeg == \E i \in zeroT : krs[i].current < 0
    IN IF n = 0 THEN Num(0)
       ELSE IF hasNaN \/ (hasPos /\ hasNeg) THEN NaN
       ELSE IF hasPos THEN Num(100)
       ELSE IF hasNeg THEN NegInf
       ELSE Num(Min(100, RoundDiv(RatioNum(krs), n * RatioDen(krs))))

(***************************************************************************)
(* History log.                                                            *)
(***************************************************************************)
\* addHistoryEntry without the truncation to the last 1000 entries.
addHistoryEntry_NoCap(s, now, type, itemType, itemId, itemTitle, changes, group) ==
    [s EXCEPT !.history = <<[id |-> generateId(s.nextId),
                             timestamp |-> now,
                             type |-> type,
                             itemType |-> itemType,
                             itemId |-> itemId,
                             itemTitle |-> itemTitle,
                             changes |-> changes,
                             group |-> group]>> \o @,
              !.nextId = s.nextId + 1]

\* addHistoryEntry that pushes the entry at the tail of the log and keeps
\* the last 1000.
addHistoryEntry_AppendsAtTail(s, now, type, itemType, itemId, itemTitle, changes, group) ==
    LET h == s.history \o <<[id |-> generateId(s.nextId),
                             timestamp |-> now,
                             type |-> type,
                             itemType |-> itemType,
                             itemId |-> itemId,
                             itemTitle |-> itemTitle,
                             changes |-> changes,
                             group |-> group]>>
    IN [s EXCEPT !.history = IF Len(h) > HistoryCap
                             THEN SubSeq(h, Len(h) - HistoryCap + 1, Len(h))
                             ELSE h,
                 !.nextId = s.nextId + 1]

addHistoryEntry(s, now, type, itemType, itemId, itemTitle, changes, group) ==
    LET entry == [id |-> generateId(s.nextId),
                  timestamp |-> now,
                  type |-> type,
                  itemType |-> itemType,
                  itemId |-> itemId,
                  itemTitle |-> itemTitle,
                  changes |-> changes,
                  group |-> group]
        h == <<entry>> \o s.history
    IN [s EXCEPT !.history = IF Len(h) > HistoryCap
                             THEN SubSeq(h, 1, HistoryCap) ELSE h,
                 !.nextId = s.nextId + 1]

(***************************************************************************)
(* Snapshot recorder.                                                      *)
(***************************************************************************)
\* The snapshot payload that leaves out the objectives without key results.
SnapshotOf_SkipsEmptyObjectives(objectives, now) ==
    [timestamp |-> now,
     objectives |->
        LET kept == SelectSeq(objectives, LAMBDA obj : Len(obj.keyResults) > 0)
        IN [i \in 1..Len(kept) |->
               [id |-> kept[i].id,
                title |-> kept[i].title,
                group |-> OrDefault(kept[i].group, "Personal"),
                progress |-> calculateProgress(kept[i]),
                keyResults |->
                    [j \in 1..Len(kept[i].keyResults) |->
                        LET kr == kept[i].keyResults[j]
                        IN [id |-> kr.id,
                            title |-> kr.title,
                            progress |-> krProgress(kr.current, kr.target),
                            current |-> kr.current,
                            target |-> kr.target]]]]]

\* The payload of a snapshot: snapshot.objectives, an object keyed by
\* objective id, is the sequence of its values in insertion order, each with
\* its key as the field id; keyResults likewise.
SnapshotOf(objectives, now) ==
    [timestamp |-> now,
     objectives |->
        [i \in 1..Len(objectives) |->
            LET obj == objectives[i]
            IN [id |-> obj.id,
                title |-> obj.title,
                group |-> OrDefault(obj.group, "Personal"),
                progress |-> calculateProgress(obj),
                keyResults |->
                    [j \in 1..Len(obj.keyResults) |->
                        LET kr == obj.keyResults[j]
                        IN [id |-> kr.id,
                            title |-> kr.title,
                            progress |-> krProgress(kr.current, kr.target),
                            current |-> kr.current,
                            target |-> kr.target]]]]]

recordProgressSnapshot(s, now) ==
    IF Len(s.objectives) = 0 THEN s
    ELSE addHistoryEntry(s, now, "progress-snapshot", "system", "all",
                         "Progress Snapshot",
                         [kind |-> "snapshot",
                          snapshot |-> SnapshotOf(s.objectives, now)],
                         NullGroup)

(***************************************************************************)
(* Weight balancer.                                                        *)
(***************************************************************************)
\* autoBalanceObjectiveWeights without the `index < remainder` increment.
autoBalanceObjectiveWeights_NoRemainder(s) ==
    IF Len(s.objectives) = 0 THEN s
    ELSE [s EXCEPT !.objectives =
            [index \in 1..Len(s.objectives) |->
                [s.objectives[index] EXCEPT !.weight =
                    FloorDiv(TotalWeight, Len(s.objectives))]]]

\* autoBalanceObjectiveWeights that hands the remainder to the last
\* objectives instead of the first.
autoBalanceObjectiveWeights_RemainderLast(s) ==
    IF Len(s.objectives) = 0 THEN s
    ELSE LET n == Len(s.objectives)
             equalWeight == FloorDiv(TotalWeight, n)
             remainder == TotalWeight - equalWeight * n
         IN [s EXCEPT !.objectives =
                [index \in 1..n |->
                    [s.objectives[index] EXCEPT !.weight =
                        equalWeight + (IF index > n - remainder THEN 1 ELSE 0)]]]

autoBalanceObjectiveWeights(s) ==
    IF Len(s.objectives) = 0 THEN s
    ELSE LET n == Len(s.objectives)
             equalWeight == FloorDiv(TotalWeight, n)
             remainder == TotalWeight - equalWeight * n
         IN [s EXCEPT !.objectives =
                [index \in 1..n |->
                    [s.objectives[index] EXCEPT !.weight =
                        equalWeight + (IF index - 1 < remainder THEN 1 ELSE 0)]]]

\* The position of objs[i] among the elements of objs whose id is not
\* editedId, counted from 0 (the index of `others.forEach`).
OtherIndex(objs, editedId, i) ==
    Cardinality({j \in 1..(i - 1) : objs[j].id # editedId})

\* balanceOtherObjectives dividing by the number of all objectives, the
\* edited one included.
balanceOtherObjectives_CountsEdited(s, editedId, manualWeight) ==
    IF Len(s.objectives) <= 1 THEN s
    ELSE LET remainingWeight == TotalWeight - manualWeight
             equalWeight == FloorDiv(remainingWeight, Len(s.objectives))
             remainder == remainingWeight - equalWeight * Len(s.objectives)
         IN [s EXCEPT !.objectives =
                [i \in 1..Len(s.objectives) |->
                    IF s.objectives[i].id = editedId
                    THEN s.objectives[i]
                    ELSE [s.objectives[i] EXCEPT !.weight =
                            equalWeight +
                            (IF OtherIndex(s.objectives, editedId, i)
                                    < remainder THEN 1 ELSE 0)]]]

balanceOtherObjectives(s, editedId, manualWeight) ==
    IF Len(s.objectives) <= 1 THEN s
    ELSE LET remainingWeight == TotalWeight - manualWeight
             others == SelectSeq(s.objectives, LAMBDA o : o.id # editedId)
         IN IF Len(others) = 0 THEN s
            ELSE LET equalWeight == FloorDiv(remainingWeight, Len(others))
                     remainder == remainingWeight - equalWeight * Len(others)
                 IN [s EXCEPT !.objectives =
                        [i \in 1..Len(s.objectives) |->
                            IF s.objectives[i].id = editedId
                            THEN s.objectives[i]
                            ELSE [s.objectives[i] EXCEPT !.weight =
                                    equalWeight +
                                    (IF OtherIndex(s.objectives, editedId, i)
                                            < remainder THEN 1 ELSE 0)]]]

balanceObjectiveWeights(s) == autoBalanceObjectiveWeights(s)

FindObjective(s, objectiveId) == IndexOfId(s.objectives, objectiveId)

FindKR(obj, krId) == IndexOfId(obj.keyResults, krId)

\* autoBalanceKRWeights without the `index < remainder` increment.
autoBalanceKRWeights_NoRemainder(s, objectiveId) ==
    LET oi == FindObjective(s, objectiveId)
    IN IF oi = 0 \/ Len(s.objectives[oi].keyResults) = 0 THEN s
       ELSE [s EXCEPT !.objectives[oi].keyResults =
               [index \in 1..Len(s.objectives[oi].keyResults) |->
                   [s.objectives[oi].keyResults[index] EXCEPT !.weight =
                       FloorDiv(TotalWeight, Len(s.objectives[oi].keyResults))]]]

autoBalanceKRWeights(s, objectiveId) ==
    LET oi == FindObjective(s, objectiveId)
    IN IF oi = 0 \/ Len(s.objectives[oi].keyResults) = 0 THEN s
       ELSE LET krs == s.objectives[oi].keyResults
                n == Len(krs)
                equalWeight == FloorDiv(TotalWeight, n)
                remainder == TotalWeight - equalWeight * n
            IN [s EXCEPT !.objectives[oi].keyResults =
                   [index \in 1..n |->
                       [krs[index] EXCEPT !.weight =
                           equalWeight + (IF index - 1 < remainder THEN 1 ELSE 0)]]]

\* balanceOtherKRs that logs an `updated` entry for the first sibling it
\* changes, stamped like the newest entry of the log.
balanceOtherKRs_LogsSibling(s, objectiveId, editedKRId, manualWeight) ==
    LET oi == FindObjective(s, objectiveId)
    IN IF oi = 0 \/ Len(s.objectives[oi].keyResults) <= 1 THEN s
       ELSE LET krs == s.objectives[oi].keyResults
                remainingWeight == TotalWeight - manualWeight
                others == SelectSeq(krs, LAMBDA k : k.id # editedKRId)
                equalWeight == FloorDiv(remainingWeight, Len(others))
                remainder == remainingWeight - equalWeight * Len(others)
                balanced ==
                    [s EXCEPT !.objectives[oi].keyResults =
                        [i \in 1..Len(krs) |->
                            IF krs[i].id = editedKRId
                            THEN krs[i]
                            ELSE [krs[i] EXCEPT !.weight =
                                    equalWeight +
                                    (IF OtherIndex(krs, editedKRId, i)
                                            < remainder THEN 1 ELSE 0)]]]
            IN addHistoryEntry(balanced,
                               IF s.history = <<>> THEN 0
                               ELSE s.history[1].timestamp,
                               "updated", "keyresult", others[1].id,
                               others[1].title,
                               [kind |-> "diff", fields |-> <<>>],
                               s.objectives[oi].group)

balanceOtherKRs(s, objectiveId, editedKRId, manualWeight) ==
    LET oi == FindObjective(s, objectiveId)
    IN IF oi = 0 \/ Len(s.objectives[oi].keyResults) <= 1 THEN s
       ELSE LET krs == s.objectives[oi].keyResults
                remainingWeight == TotalWeight - manualWeight
                others == SelectSeq(krs, LAMBDA k : k.id # editedKRId)
            IN IF Len(others) = 0 THEN s
               ELSE LET equalWeight == FloorDiv(remainingWeight, Len(others))
                        remainder == remainingWeight - equalWeight * Len(others)
                    IN [s EXCEPT !.objectives[oi].keyResults =
                           [i \in 1..Len(krs) |->
                               IF krs[i].id = editedKRId
                               THEN krs[i]
                               ELSE [krs[i] EXCEPT !.weight =
                                       equalWeight +
                                       (IF OtherIndex(krs, editedKRId, i)
                                               < remainder THEN 1 ELSE 0)]]]

balanceKRWeights(s, objectiveId) == autoBalanceKRWeights(s, objectiveId)

(***************************************************************************)
(* Mutating operations, as functions of the store.  `now` is the value of  *)
(* new Date() during the call.                                             *)
(***************************************************************************)
\* new Date().toISOString().split('T')[0]
ISODate(now) == now \div TicksPerDay

\* One `if (old !== new) changes.field = {from, to}` line of the diff.
FieldChange(field, from, to) ==
    IF from # to THEN <<[field |-> field, from |-> from, to |-> to]>> ELSE <<>>

\* `if (old !== new) changes.field = { from: old || default, to: new }`
FieldChangeOr(field, old, new, default) ==
    IF old # new
    THEN <<[field |-> field, from |-> StrVal(OrDefault(old, default)),
            to |-> StrVal(new)]>>
    ELSE <<>>

\* saveObjective whose edit path sets createdAt to today.
saveObjective_RestampsOnEdit(s, now, fh, formData) ==
    IF ~fh THEN s
    ELSE
    LET editId == formData.editId
        oi == FindObjective(s, editId)
        edited ==
            IF oi = 0 THEN s
            ELSE
            LET obj == s.objectives[oi]
                oldWeight == obj.weight
                changes ==
                    FieldChange("title", StrVal(obj.title), StrVal(formData.title))
                    \o FieldChange("group", StrVal(obj.group), StrVal(formData.group))
                    \o FieldChange("weight", NumVal(obj.weight), NumVal(formData.weight))
                s1 == [s EXCEPT !.objectives[oi] =
                          [obj EXCEPT !.group = formData.group,
                                      !.title = formData.title,
                                      !.weight = formData.weight,
                                      !.createdAt = ISODate(now)]]
                s2 == IF Len(changes) > 0
                      THEN addHistoryEntry(s1, now, "updated", "objective", editId,
                                           formData.title,
                                           [kind |-> "diff", fields |-> changes],
                                           formData.group)
                      ELSE s1
            IN IF oldWeight # formData.weight
               THEN balanceOtherObjectives(s2, editId, formData.weight)
               ELSE s2
        added ==
            LET newId == generateId(s.nextId)
                s1 == [s EXCEPT
                          !.objectives = Append(@,
                              [id |-> newId,
                               group |-> formData.group,
                               title |-> formData.title,
                               weight |-> 0,
                               keyResults |-> <<>>,
                               createdAt |-> ISODate(now)]),
                          !.nextId = @ + 1]
                s2 == autoBalanceObjectiveWeights(s1)
            IN addHistoryEntry(s2, now, "created", "objective", newId,
                               formData.title, [kind |-> "created"],
                               formData.group)
    IN recordProgressSnapshot(IF editId # NoId THEN edited ELSE added, now)

saveObjective(s, now, fh, formData) ==
    IF ~fh THEN s
    ELSE
    LET editId == formData.editId
        oi == FindObjective(s, editId)
        edited ==
            IF oi = 0 THEN s
            ELSE
            LET obj == s.objectives[oi]
                oldWeight == obj.weight
                changes ==
                    FieldChange("title", StrVal(obj.title), StrVal(formData.title))
                    \o FieldChange("group", StrVal(obj.group), StrVal(formData.group))
                    \o FieldChange("weight", NumVal(obj.weight), NumVal(formData.weight))
                s1 == [s EXCEPT !.objectives[oi] =
                          [obj EXCEPT !.group = formData.group,
                                      !.title = formData.title,
                                      !.weight = formData.weight]]
                s2 == IF Len(changes) > 0
                      THEN addHistoryEntry(s1, now, "updated", "objective", editId,
                                           formData.title,
                                           [kind |-> "diff", fields |-> changes],
                                           formData.group)
                      ELSE s1
            IN IF oldWeight # formData.weight
               THEN balanceOtherObjectives(s2, editId, formData.weight)
               ELSE s2
        added ==
            LET newId == generateId(s.nextId)
                s1 == [s EXCEPT
                          !.objectives = Append(@,
                              [id |-> newId,
                               group |-> formData.group,
                               title |-> formData.title,
                               weight |-> 0,
                               keyResults |-> <<>>,
                               createdAt |-> ISODate(now)]),
                          !.nextId = @ + 1]
                s2 == autoBalanceObjectiveWeights(s1)
            IN addHistoryEntry(s2, now, "created", "objective", newId,
                               formData.title, [kind |-> "created"],
                               formData.group)
    IN recordProgressSnapshot(IF editId # NoId THEN edited ELSE added, now)

\* deleteObjective that also logs the deletion of the objective's first key
\* result.
deleteObjective_LogsKeyResult(s, now, id) ==
    LET oi == FindObjective(s, id)
        s0 == IF oi # 0 /\ Len(s.objectives[oi].keyResults) > 0
              THEN addHistoryEntry(s, now, "deleted", "keyresult",
                                   s.objectives[oi].keyResults[1].id,
                                   s.objectives[oi].keyResults[1].title,
                                   [kind |-> "deleted"], s.objectives[oi].group)
              ELSE s
        s1 == IF oi # 0
              THEN addHistoryEntry(s0, now, "deleted", "objective", id,
                                   s.objectives[oi].title, [kind |-> "deleted"],
                                   s.objectives[oi].group)
              ELSE s0
        s2 == [s1 EXCEPT !.objectives = SelectSeq(@, LAMBDA o : o.id # id)]
    IN recordProgressSnapshot(s2, now)

\* deleteObjective that retitles the entries the log holds about the
\* deleted objective.
deleteObjective_RetitlesHistory(s, now, id) ==
    LET oi == FindObjective(s, id)
        s1 == IF oi # 0
              THEN addHistoryEntry(s, now, "deleted", "objective", id,
                                   s.objectives[oi].title, [kind |-> "deleted"],
                                   s.objectives[oi].group)
              ELSE s
        s2 == [s1 EXCEPT
                  !.objectives = SelectSeq(@, LAMBDA o : o.id # id),
                  !.history = [i \in 1..Len(@) |->
                                  IF @[i].itemId = id /\ @[i].type # "deleted"
                                  THEN [@[i] EXCEPT !.itemTitle = "(deleted)"]
                                  ELSE @[i]]]
    IN recordProgressSnapshot(s2, now)

deleteObjective(s, now, id) ==
    LET oi == FindObjective(s, id)
        s1 == IF oi # 0
              THEN addHistoryEntry(s, now, "deleted", "objective", id,
                                   s.objectives[oi].title, [kind |-> "deleted"],
                                   s.objectives[oi].group)
              ELSE s
        s2 == [s1 EXCEPT !.objectives = SelectSeq(@, LAMBDA o : o.id # id)]
    IN recordProgressSnapshot(s2, now)

saveKeyResult(s, now, objectiveId, title, target, weight, confidence, editId) ==
    LET oi == FindObjective(s, objectiveId)
    IN IF oi = 0 THEN s
       ELSE
       LET objective == s.objectives[oi]
           ki == FindKR(objective, editId)
           edited ==
               IF ki = 0 THEN s
               ELSE
               LET kr == objective.keyResults[ki]
                   oldWeight == kr.weight
                   changes ==
                       FieldChange("title", StrVal(kr.title), StrVal(title))
                       \o FieldChangeOr("confidence", kr.confidence, confidence,
                                        "Medium")
                       \o FieldChange("target", NumVal(kr.target), NumVal(target))
                       \o FieldChange("weight", NumVal(kr.weight), NumVal(weight))
                   s1 == [s EXCEPT !.objectives[oi].keyResults[ki] =
                             [kr EXCEPT !.title = title,
                                        !.target = target,
                                        !.current = Min(kr.current, target),
                                        !.weight = weight,
                                        !.confidence = confidence]]
                   s2 == IF Len(changes) > 0
                         THEN addHistoryEntry(s1, now, "updated", "keyresult",
                                              editId, title,
                                              [kind |-> "diff", fields |-> changes],
                                              objective.group)
                         ELSE s1
               IN IF oldWeight # weight
                  THEN balanceOtherKRs(s2, objectiveId, editId, weight)
                  ELSE s2
           added ==
               LET newKrId == generateId(s.nextId)
                   s1 == [s EXCEPT
                             !.objectives[oi].keyResults = Append(@,
                                 [id |-> newKrId,
                                  title |-> title,
                                  target |-> target,
                                  current |-> 0,
                                  weight |-> 0,
                                  confidence |-> confidence,
                                  createdAt |-> ISODate(now)]),
                             !.nextId = @ + 1]
                   s2 == autoBalanceKRWeights(s1, objectiveId)
               IN addHistoryEntry(s2, now, "created", "keyresult", newKrId,
                                  title, [kind |-> "created"], objective.group)
       IN recordProgressSnapshot(IF editId # NoId THEN edited ELSE added, now)

\* `${current}/${target} (${progress}%)`
ProgressLabel(current, target) ==
    ToString(current) \o "/" \o ToString(target) \o " ("
        \o NumToString(krProgress(current, target)) \o "%)"

\* updateKR without the call of recordProgressSnapshot.
updateKR_NoSnapshot(s, now, objectiveId, krId, delta) ==
    LET oi == FindObjective(s, objectiveId)
    IN IF oi = 0 THEN s
       ELSE
       LET objective == s.objectives[oi]
           ki == FindKR(objective, krId)
       IN IF ki = 0 THEN s
          ELSE
          LET kr == objective.keyResults[ki]
              oldCurrent == kr.current
              newCurrent == Max(0, Min(kr.target, kr.current + delta))
              s1 == [s EXCEPT !.objectives[oi].keyResults[ki].current = newCurrent]
              s2 == IF oldCurrent # newCurrent
                    THEN addHistoryEntry(s1, now, "progress", "keyresult", krId,
                            kr.title,
                            [kind |-> "progress",
                             from |-> ProgressLabel(oldCurrent, kr.target),
                             to |-> ProgressLabel(newCurrent, kr.target),
                             delta |-> delta],
                            objective.group)
                    ELSE s1
          IN s2

updateKR(s, now, objectiveId, krId, delta) ==
    LET oi == FindObjective(s, objectiveId)
    IN IF oi = 0 THEN s
       ELSE
       LET objective == s.objectives[oi]
           ki == FindKR(objective, krId)
       IN IF ki = 0 THEN s
          ELSE
          LET kr == objective.keyResults[ki]
              oldCurrent == kr.current
              newCurrent == Max(0, Min(kr.target, kr.current + delta))
              s1 == [s EXCEPT !.objectives[oi].keyResults[ki].current = newCurrent]
              s2 == IF oldCurrent # newCurrent
                    THEN addHistoryEntry(s1, now, "progress", "keyresult", krId,
                            kr.title,
                            [kind |-> "progress",
                             from |-> ProgressLabel(oldCurrent, kr.target),
                             to |-> ProgressLabel(newCurrent, kr.target),
                             delta |-> delta],
                            objective.group)
                    ELSE s1
          IN recordProgressSnapshot(s2, now)

\* deleteKR that records the snapshot before it logs the deletion.
deleteKR_SnapshotFirst(s, now, objectiveId, krId) ==
    LET oi == FindObjective(s, objectiveId)
    IN IF oi = 0 THEN s
       ELSE
       LET objective == s.objectives[oi]
           ki == FindKR(objective, krId)
           s1 == recordProgressSnapshot(
                    [s EXCEPT !.objectives[oi].keyResults =
                                 SelectSeq(@, LAMBDA k : k.id # krId)], now)
       IN IF ki # 0
          THEN addHistoryEntry(s1, now, "deleted", "keyresult", krId,
                               objective.keyResults[ki].title,
                               [kind |-> "deleted"], objective.group)
          ELSE s1

deleteKR(s, now, objectiveId, krId) ==
    LET oi == FindObjective(s, objectiveId)
    IN IF oi = 0 THEN s
       ELSE
       LET objective == s.objectives[oi]
           ki == FindKR(objective, krId)
           s1 == IF ki # 0
                 THEN addHistoryEntry(s, now, "deleted", "keyresult", krId,
                                      objective.keyResults[ki].title,
                                      [kind |-> "deleted"], objective.group)
                 ELSE s
           s2 == [s1 EXCEPT !.objectives[oi].keyResults =
                               SelectSeq(@, LAMBDA k : k.id # krId)]
       IN recordProgressSnapshot(s2, now)

(***************************************************************************)
(* The baseline variant of the handlers (the first copy of the program in  *)
(* app.js): no history, no snapshots, and key results without confidence.  *)
(* Its store is the objectives and the id counter.  Its balancers are      *)
(* line for line those of the extended variant and touch the objectives    *)
(* only, so the operators above serve both.                                *)
(***************************************************************************)
\* BaselineUpdateKR without the Math.max(0, ...) floor.
BaselineUpdateKR_NoFloor(s, objectiveId, krId, delta) ==
    LET oi == FindObjective(s, objectiveId)
        ki == IF oi = 0 THEN 0 ELSE FindKR(s.objectives[oi], krId)
    IN IF ki = 0 THEN s
       ELSE [s EXCEPT !.objectives[oi].keyResults[ki].current =
                          Min(@, s.objectives[oi].keyResults[ki].target)
                             + delta]

BaselineSaveObjective(s, now, fh, formData) ==
    IF ~fh THEN s
    ELSE
    LET editId == formData.editId
        oi == FindObjective(s, editId)
        edited ==
            IF oi = 0 THEN s
            ELSE
            LET obj == s.objectives[oi]
                oldWeight == obj.weight
                s1 == [s EXCEPT !.objectives[oi] =
                          [obj EXCEPT !.group = formData.group,
                                      !.title = formData.title,
                                      !.weight = formData.weight]]
            IN IF oldWeight # formData.weight
               THEN balanceOtherObjectives(s1, editId, formData.weight)
               ELSE s1
        added ==
            autoBalanceObjectiveWeights(
               [s EXCEPT
                   !.objectives = Append(@,
                       [id |-> generateId(s.nextId),
                        group |-> formData.group,
                        title |-> formData.title,
                        weight |-> 0,
                        keyResults |-> <<>>,
                        createdAt |-> ISODate(now)]),
                   !.nextId = @ + 1])
    IN IF editId # NoId THEN edited ELSE added

BaselineDeleteObjective(s, id) ==
    [s EXCEPT !.objectives = SelectSeq(@, LAMBDA obj : obj.id # id)]

BaselineSaveKeyResult(s, now, objectiveId, title, target, weight, editId) ==
    LET oi == FindObjective(s, objectiveId)
    IN IF oi = 0 THEN s
       ELSE
       LET objective == s.objectives[oi]
           ki == FindKR(objective, editId)
           edited ==
               IF ki = 0 THEN s
               ELSE
               LET kr == objective.keyResults[ki]
                   oldWeight == kr.weight
                   s1 == [s EXCEPT !.objectives[oi].keyResults[ki] =
                             [kr EXCEPT !.title = title,
                                        !.target = target,
                                        !.current = Min(kr.current, target),
                                        !.weight = weight]]
               IN IF oldWeight # weight
                  THEN balanceOtherKRs(s1, objectiveId, editId, weight)
                  ELSE s1
           added ==
               autoBalanceKRWeights(
                  [s EXCEPT
                      !.objectives[oi].keyResults = Append(@,
                          [id |-> generateId(s.nextId),
                           title |-> title,
                           target |-> target,
                           current |-> 0,
                           weight |-> 0,
                           createdAt |-> ISODate(now)]),
                      !.nextId = @ + 1],
                  objectiveId)
       IN IF editId # NoId THEN edited ELSE added

BaselineUpdateKR(s, objectiveId, krId, delta) ==
    LET oi == FindObjective(s, objectiveId)
        ki == IF oi = 0 THEN 0 ELSE FindKR(s.objectives[oi], krId)
    IN IF ki = 0 THEN s
       ELSE [s EXCEPT !.objectives[oi].keyResults[ki].current =
                Max(0, Min(s.objectives[oi].keyResults[ki].target, @ + delta))]

BaselineDeleteKR(s, objectiveId, krId) ==
    LET oi == FindObjective(s, objectiveId)
    IN IF oi = 0 THEN s
       ELSE [s EXCEPT !.objectives[oi].keyResults =
                         SelectSeq(@, LAMBDA k : k.id # krId)]

(***************************************************************************)
(* Documents found in the file or the localStorage cache at start-up: the  *)
(* results of earlier sessions of this program, obtained by running its    *)
(* own operations from the empty Document.                                 *)
(***************************************************************************)
EmptyStore == [objectives |-> <<>>, history |-> <<>>, nextId |-> 1]

NewObjectiveForm(title, group) ==
    [editId |-> NoId, group |-> group, title |-> title, weight |-> 100]

\* One operation of an earlier session, which names its objective and key
\* result by position.
ReplayOp(s, op) ==
    CASE op.kind = "addObjective" ->
            saveObjective(s, 0, TRUE, NewObjectiveForm(op.title, op.group))
      [] op.kind = "addKR" ->
            saveKeyResult(s, 0, s.objectives[op.oi].id, op.title, op.target,
                          100, "Medium", NoId)
      [] op.kind = "editKR" ->
            saveKeyResult(s, 0, s.objectives[op.oi].id, op.title, op.target,
                          s.objectives[op.oi].keyResults[op.ki].weight,
                          PrefilledConfidence(
                             s.objectives[op.oi].keyResults[op.ki].confidence),
                          s.objectives[op.oi].keyResults[op.ki].id)
      [] op.kind = "updateKR" ->
            updateKR(s, 0, s.objectives[op.oi].id,
                     s.objectives[op.oi].keyResults[op.ki].id, op.delta)
      [] op.kind = "deleteObjective" ->
            deleteObjective(s, 0, s.objectives[op.oi].id)

RECURSIVE Replay(_, _)
Replay(s, ops) ==
    IF ops = <<>> THEN s ELSE Replay(ReplayOp(s, Head(ops)), Tail(ops))

\* Two objectives; the first has key results at 10/80 and 0/5.
SavedTwo ==
    Replay(EmptyStore,
           <<[kind |-> "addObjective", title |-> "A", group |-> "Personal"],
             [kind |-> "addObjective", title |-> "B", group |-> "Team"],
             [kind |-> "addKR", oi |-> 1, title |-> "A", target |-> 80],
             [kind |-> "addKR", oi |-> 1, title |-> "B", target |-> 5],
             [kind |-> "updateKR", oi |-> 1, ki |-> 1, delta |-> StepDelta]>>)

\* SavedTwo with a third objective, and a third key result in the first.
SavedThree ==
    Replay(SavedTwo,
           <<[kind |-> "addObjective", title |-> "B", group |-> "Personal"],
             [kind |-> "addKR", oi |-> 1, title |-> "A", target |-> 80]>>)

\* SavedTwo after the target of its key result at 10/80 was edited to -10.
SavedNegative ==
    Replay(SavedTwo,
           <<[kind |-> "editKR", oi |-> 1, ki |-> 1, title |-> "B",
              target |-> -10]>>)

\* SavedThree after its third and its second objective were deleted: one
\* objective is live, and the snapshots taken before hold objectives that
\* are no longer live.
SavedAfterDelete ==
    Replay(SavedThree, <<[kind |-> "deleteObjective", oi |-> 3],
                         [kind |-> "deleteObjective", oi |-> 2]>>)

\* A Document whose log is one entry short of the cap: FillCycles times an
\* objective was added (created + snapshot) and deleted again (deleted).
FillCycles == 333

AddDeleteCycle(s) ==
    LET a == saveObjective(s, 0, TRUE, NewObjectiveForm("A", "Personal"))
    IN deleteObjective(a, 0, a.objectives[1].id)

RECURSIVE AddDeleteCycles(_, _)
\* (the test of s.nextId, which is never below 1, has s evaluated before the
\* recursive calls use it)
AddDeleteCycles(s, n) ==
    IF n = 0 \/ s.nextId < 1 THEN s
    ELSE IF n = 1 THEN AddDeleteCycle(s)
    ELSE AddDeleteCycles(AddDeleteCycles(s, n \div 2), n - (n \div 2))

SavedFull == AddDeleteCycles(EmptyStore, FillCycles)

SavedDocs == {SavedTwo, SavedThree, SavedNegative, SavedAfterDelete, SavedFull}

(***************************************************************************)
(* Persistence.  The text of a file, or of the localStorage cache entry,   *)
(* is a record whose field k tells what reading it gives:                  *)
(*   "none"        there is no such file or entry;                         *)
(*   "unreadable"  getFile() / text() / getItem() throws;                  *)
(*   "unparsable"  JSON.parse throws;                                      *)
(*   "json"        an object, with or without the properties `objectives`  *)
(*                 and `history` (hasObjectives, hasHistory).              *)
(* A "json" text also carries nextId, the position of the id source when   *)
(* it was written: ids are made from Date.now(), so a later session makes  *)
(* ids that the text does not hold.                                        *)
(***************************************************************************)
NoFile == [k |-> "none"]
Unreadable == [k |-> "unreadable"]
Unparsable == [k |-> "unparsable"]

\* JSON.stringify of a number: NaN and the infinities are written as null.
JSONNumber(p) == IF p.k = "num" THEN p ELSE [k |-> "null", v |-> 0]

JSONSnapshotObjective(o) ==
    [o EXCEPT !.progress = JSONNumber(o.progress),
              !.keyResults = [j \in 1..Len(o.keyResults) |->
                                 [o.keyResults[j] EXCEPT
                                     !.progress = JSONNumber(o.keyResults[j].progress)]]]

JSONHistoryEntry(e) ==
    IF e.type = "progress-snapshot"
    THEN [e EXCEPT !.changes.snapshot.objectives =
             [i \in 1..Len(e.changes.snapshot.objectives) |->
                 JSONSnapshotObjective(e.changes.snapshot.objectives[i])]]
    ELSE e

\* JSON.stringify(data, null, 2), read back by JSON.parse.
JSONStringify(s) ==
    [k |-> "json", hasObjectives |-> TRUE, hasHistory |-> TRUE,
     objectives |-> s.objectives,
     history |-> [i \in 1..Len(s.history) |-> JSONHistoryEntry(s.history[i])],
     nextId |-> s.nextId]

EmptyDocument == [objectives |-> <<>>, history |-> <<>>]

\* loadFromFile that gives up on a text without a history property.
loadFromFile_NeedsHistory(text) ==
    IF text.k = "json" /\ text.hasHistory
    THEN [objectives |-> IF text.hasObjectives THEN text.objectives ELSE <<>>,
          history |-> text.history]
    ELSE EmptyDocument

\* loadFromFile: the Document that becomes `data`.  A property that is absent, or present
\* and falsy, is one that hasObjectives / hasHistory tells FALSE of.
loadFromFile(text) ==
    IF text.k = "json"
    THEN [objectives |-> IF text.hasObjectives THEN text.objectives ELSE <<>>,
          history |-> IF text.hasHistory THEN text.history ELSE <<>>]
    ELSE EmptyDocument

\* loadFromLocalStorage: found is FALSE where the source returns null.
loadFromLocalStorage(text) ==
    IF text.k = "json"
    THEN [found |-> TRUE,
          objectives |-> IF text.hasObjectives THEN text.objectives ELSE <<>>,
          history |-> IF text.hasHistory THEN text.history ELSE <<>>]
    ELSE [found |-> FALSE, objectives |-> <<>>, history |-> <<>>]

\* saveToFile with a file handle: the text of the file afterwards.  ok is
\* FALSE when createWritable(), write() or close() throws.
saveToFile(s, text, ok) == IF ok THEN JSONStringify(s) ELSE text

\* updateFileStatus: what the file-name indicator shows.
updateFileStatus(connected, fh) == IF fh THEN "connected" ELSE "none"

\* A document written by the baseline variant of the program (src/app.js,
\* lines 1-847): it has no history, and its key results no confidence.
LegacyText ==
    [k |-> "json", hasObjectives |-> TRUE, hasHistory |-> FALSE,
     objectives |->
        [i \in 1..Len(SavedTwo.objectives) |->
            [SavedTwo.objectives[i] EXCEPT !.keyResults =
                [j \in 1..Len(SavedTwo.objectives[i].keyResults) |->
                    [SavedTwo.objectives[i].keyResults[j] EXCEPT
                        !.confidence = Undefined]]]],
     history |-> <<>>,
     nextId |-> SavedTwo.nextId]

\* `{}` and a text with a history but no objectives property.
EmptyObjectText ==
    [k |-> "json", hasObjectives |-> FALSE, hasHistory |-> FALSE,
     objectives |-> <<>>, history |-> <<>>, nextId |-> 1]

HistoryOnlyText ==
    [JSONStringify(SavedTwo) EXCEPT !.hasObjectives = FALSE, !.objectives = <<>>]

\* What a file picked by the user, or the file of the stored handle, may
\* hold.
StoredTexts ==
    {JSONStringify(doc) : doc \in SavedDocs}
       \cup {LegacyText, EmptyObjectText, HistoryOnlyText, Unparsable, Unreadable}

\* What the cache entry may hold: nothing, what saveToLocalStorage wrote in
\* an earlier session, or a damaged text.
CachedTexts == {NoFile, JSONStringify(SavedTwo), Unparsable}

(***************************************************************************)
(* Progress trends.  A renderer gives [data |-> the Document after the     *)
(* call, chart |-> what it draws].  Array.prototype.filter and map build   *)
(* new arrays; Array.prototype.sort sorts its receiver in place, and every *)
(* receiver below is an array the renderer built itself.                   *)
(***************************************************************************)
TrendGroups == <<"Personal", "Team", "Company">>

\* `a + b` on progress values; a null read back from JSON counts as 0.
JSAdd(a, b) ==
    IF a.k = "nan" \/ b.k = "nan" THEN NaN
    ELSE IF a.k = "ninf" \/ b.k = "ninf" THEN NegInf
    ELSE Num((IF a.k = "num" THEN a.v ELSE 0) + (IF b.k = "num" THEN b.v ELSE 0))

RECURSIVE TotalProgress(_)
\* totalProgress over the snapshot objectives objs, from 0.
TotalProgress(objs) ==
    IF Len(objs) = 0 THEN Num(0)
    ELSE JSAdd(TotalProgress(SubSeq(objs, 1, Len(objs) - 1)),
               objs[Len(objs)].progress)

\* Math.round(total / count)
JSRoundDiv(total, count) ==
    IF total.k = "num" THEN Num(RoundDiv(total.v, count)) ELSE total

\* new Date(timestamp).toLocaleDateString()
LocaleDate(timestamp) == timestamp \div TicksPerDay

\* points.sort((a, b) => new Date(a.timestamp) - new Date(b.timestamp)):
\* ascending, points of one timestamp in the order they had.
SortByTimestamp(points) ==
    LET n == Len(points)
        rank == [i \in 1..n |->
                    Cardinality({j \in 1..n :
                        \/ points[j].timestamp < points[i].timestamp
                        \/ (points[j].timestamp = points[i].timestamp /\ j < i)})
                    + 1]
    IN [p \in 1..n |-> points[CHOOSE i \in 1..n : rank[i] = p]]

\* The progress snapshots of the history, as a new array.
TrendSnapshots(history) ==
    SelectSeq(history, LAMBDA h : h.type = "progress-snapshot"
                                     /\ h.changes.kind = "snapshot")

NoChart == [k |-> "none", series |-> <<>>]
EmptyChart == [k |-> "empty", series |-> <<>>]

\* GroupPoint that also counts the captured objectives that were deleted
\* since.
GroupPoint_CountsDeleted(s, snapshot, group) ==
    LET objs == SelectSeq(snapshot.changes.snapshot.objectives,
                          LAMBDA o : o.group = group)
    IN [date |-> LocaleDate(snapshot.timestamp),
        progress |-> IF Len(objs) = 0 THEN Num(0)
                     ELSE JSRoundDiv(TotalProgress(objs), Len(objs)),
        timestamp |-> snapshot.timestamp,
        count |-> Len(objs)]

\* The data point of one group in one snapshot; count is 0 when the
\* snapshot holds no objective of the group that still exists.
GroupPoint(s, snapshot, group) ==
    LET objs == SelectSeq(snapshot.changes.snapshot.objectives,
                          LAMBDA o : IndexOfId(s.objectives, o.id) # 0
                                        /\ o.group = group)
    IN [date |-> LocaleDate(snapshot.timestamp),
        progress |-> IF Len(objs) = 0 THEN Num(0)
                     ELSE JSRoundDiv(TotalProgress(objs), Len(objs)),
        timestamp |-> snapshot.timestamp,
        count |-> Len(objs)]

\* renderGroupedProgressTrends that sorts the history itself by timestamp.
renderGroupedProgressTrends_SortsHistory(s, snapshots) ==
    [data |-> [s EXCEPT !.history = SortByTimestamp(s.history)],
     chart |-> EmptyChart]

renderGroupedProgressTrends(s, snapshots) ==
    LET current == {OrDefault(s.objectives[i].group, "Personal") :
                       i \in 1..Len(s.objectives)}
        points(group) ==
            IF group \in current
            THEN SelectSeq([i \in 1..Len(snapshots) |->
                               GroupPoint(s, snapshots[i], group)],
                           LAMBDA point : point.count > 0)
            ELSE <<>>
        series == [g \in 1..Len(TrendGroups) |->
                      [group |-> TrendGroups[g],
                       dataPoints |-> SortByTimestamp(points(TrendGroups[g]))]]
    IN [data |-> s,
        chart |-> IF \A g \in 1..Len(series) : series[g].dataPoints = <<>>
                  THEN EmptyChart
                  ELSE [k |-> "grouped", series |-> series]]

renderIndividualProgressTrends(s, snapshots, filterGroup, filterObjective) ==
    LET kept(o) == /\ IndexOfId(s.objectives, o.id) # 0
                   /\ filterGroup = "all" \/ o.group = filterGroup
                   /\ filterObjective = "all" \/ o.id = filterObjective
        objsOf(i) == snapshots[i].changes.snapshot.objectives
        \* where an objective id is first met: <<snapshot, position>>
        met == {<<i, j>> \in (1..Len(snapshots)) \X (1..MaxObjectives + 1) :
                   j <= Len(objsOf(i)) /\ kept(objsOf(i)[j])}
        first == {m \in met :
                    \A m2 \in met :
                       objsOf(m2[1])[m2[2]].id = objsOf(m[1])[m[2]].id
                          => (m[1] < m2[1] \/ (m[1] = m2[1] /\ m[2] <= m2[2]))}
        before(a, b) == a[1] < b[1] \/ (a[1] = b[1] /\ a[2] < b[2])
        nth(p) == CHOOSE m \in first :
                     Cardinality({m2 \in first : before(m2, m)}) = p - 1
        dataPoints(id) ==
            LET hits == SelectSeq(snapshots,
                           LAMBDA h : \E j \in 1..Len(h.changes.snapshot.objectives) :
                                         /\ h.changes.snapshot.objectives[j].id = id
                                         /\ kept(h.changes.snapshot.objectives[j]))
            IN [i \in 1..Len(hits) |->
                   LET o == hits[i].changes.snapshot.objectives[
                               IndexOfId(hits[i].changes.snapshot.objectives, id)]
                   IN [date |-> LocaleDate(hits[i].timestamp),
                       progress |-> o.progress,
                       timestamp |-> hits[i].timestamp]]
        series == [p \in 1..Cardinality(first) |->
                      LET o == objsOf(nth(p)[1])[nth(p)[2]]
                      IN [id |-> o.id,
                          title |-> s.objectives[IndexOfId(s.objectives, o.id)].title,
                          group |-> o.group,
                          dataPoints |-> SortByTimestamp(dataPoints(o.id))]]
    IN [data |-> s,
        chart |-> IF first = {} THEN EmptyChart
                  ELSE [k |-> "individual", series |-> series]]

renderProgressTrends(s, viewMode, filterGroup, filterObjective) ==
    LET snapshots == TrendSnapshots(s.history)
    IN IF Len(snapshots) = 0 THEN [data |-> s, chart |-> EmptyChart]
       ELSE IF viewMode = "grouped"
       THEN renderGroupedProgressTrends(s, snapshots)
       ELSE renderIndividualProgressTrends(s, snapshots, filterGroup,
                                           filterObjective)

(***************************************************************************)
(* Objective cards.  renderObjectives draws one card per objective; the    *)
(* outline class of the card and the warning class of its due-date badge   *)
(* depend on the objective's target date, its progress, and the clock and  *)
(* time zone of the browser.  Instants are counted in ticks of UTC, as in  *)
(* the rest of the model; zone is the offset of local time from UTC in     *)
(* ticks (negative west of Greenwich).  A target date is the value of a    *)
(* date field, the string YYYY-MM-DD of a calendar day, or the empty       *)
(* string.                                                                 *)
(***************************************************************************)
NoDate == [k |-> "none", day |-> 0]
DateString(day) == [k |-> "date", day |-> day]

\* new Date("YYYY-MM-DD"): a date-only string is read as midnight UTC of
\* that day.
NewDate(dateString) == dateString.day * TicksPerDay

\* date.setHours(0, 0, 0, 0): midnight, local time, of the local calendar
\* day the instant falls on.
SetHoursZero(instant, tz) ==
    FloorDiv(instant + tz, TicksPerDay) * TicksPerDay - tz

\* progress < n and progress >= n of JavaScript: both are false of NaN.
JSLess(p, n) == (p.k = "num" /\ p.v < n) \/ p.k = "ninf"
JSAtLeast(p, n) == p.k = "num" /\ p.v >= n

getDateWarningClass(targetDate, now, tz) ==
    IF targetDate.k = "none" THEN ""
    ELSE LET today == SetHoursZero(now, tz)
             target == SetHoursZero(NewDate(targetDate), tz)
             diffTime == target - today
             diffDays == FloorDiv(diffTime, TicksPerDay)
         IN IF diffDays < 0 THEN " date-warning-red"
            ELSE IF diffDays <= 7 THEN " date-warning-yellow"
            ELSE ""

\* The outline class renderObjectives gives the card of obj.
overdueClass(obj, now, tz) ==
    LET progress == calculateProgress(obj)
        today == SetHoursZero(now, tz)
        hasDate == obj.targetDate.k # "none"
        targetDate == SetHoursZero(NewDate(obj.targetDate), tz)
        isPastDue == hasDate /\ targetDate < today
        isBeforeOrAtDueDate == hasDate /\ targetDate >= today
    IN IF isPastDue /\ JSLess(progress, 70) THEN " objective-overdue"
       ELSE IF isPastDue /\ JSAtLeast(progress, 70)
            THEN " objective-overdue-yellow"
       ELSE IF isBeforeOrAtDueDate /\ JSAtLeast(progress, 70)
                                   /\ JSLess(progress, 100)
            THEN " objective-overdue-blue"
       ELSE IF isBeforeOrAtDueDate /\ JSAtLeast(progress, 100)
            THEN " objective-overdue-complete"
       ELSE ""

NoPage == <<>>

\* The cards renderObjectives draws: per objective the outline class and
\* the class of the due-date badge.
renderObjectives(objectives, now, tz) ==
    [i \in 1..Len(objectives) |->
        [id |-> objectives[i].id,
         overdueClass |-> overdueClass(objectives[i], now, tz),
         dateWarning |-> IF objectives[i].targetDate.k = "none" THEN ""
                         ELSE getDateWarningClass(objectives[i].targetDate,
                                                  now, tz)]]

(***************************************************************************)
(* The state machine.                                                      *)
(***************************************************************************)
Store == [objectives |-> data.objectives, history |-> data.history,
          nextId |-> nextId]

Commit(r) ==
    /\ data' = [objectives |-> r.objectives, history |-> r.history]
    /\ nextId' = r.nextId

\* The outcomes of a write that are explored: every handler ends in the same
\* `await saveToFile()`, and the failing write is drawn for two of them,
\* createFile and updateKR.
WriteSucceeds == {TRUE}
WriteMayFail == BOOLEAN

\* `await saveToFile()` at the end of a handler that has produced r; reached
\* is FALSE when the handler returns before it.  Without a file handle
\* saveToFile returns at once.
Save(reached, r, outcomes) ==
    IF reached /\ fileHandle
    THEN \E ok \in outcomes :
            /\ file' = saveToFile(r, file, ok)
            /\ saveOutcome' = IF ok THEN "written" ELSE "failed"
            /\ fileStatus' = updateFileStatus(ok, fileHandle)
    ELSE UNCHANGED <<file, saveOutcome, fileStatus>>

\* The store after `data` was replaced by a loaded Document.
Loaded(doc, text) ==
    [objectives |-> doc.objectives, history |-> doc.history,
     nextId |-> IF text.k = "json" THEN Max(nextId, text.nextId) ELSE nextId]

\* One user operation; Date.now() has advanced since the previous one.
Step ==
    /\ booted
    /\ steps < MaxSteps
    /\ steps' = steps + 1
    /\ clock' = clock + 1
    /\ UNCHANGED <<trends, pending, started, origin, zone, page>>

StaleId == "id0"

ObjectiveIds == {data.objectives[i].id : i \in 1..Len(data.objectives)} \cup {StaleId}

KRIds(objectiveId) ==
    LET oi == FindObjective(Store, objectiveId)
    IN (IF oi = 0 THEN {}
        ELSE {data.objectives[oi].keyResults[j].id :
                 j \in 1..Len(data.objectives[oi].keyResults)}) \cup {StaleId}

\* `weight || 100`, the value the edit form is opened with.
PrefilledWeight(weight) == IF weight = 0 THEN 100 ELSE weight

\* The weight field of the edit form: a typed value, or the value the form
\* was opened with.
ObjectiveWeightInputs(editId) ==
    LET oi == FindObjective(Store, editId)
    IN WeightInputs \cup
       (IF oi = 0 THEN {} ELSE {PrefilledWeight(data.objectives[oi].weight)})

KRWeightInputs(objectiveId, krId) ==
    LET oi == FindObjective(Store, objectiveId)
        ki == IF oi = 0 THEN 0 ELSE FindKR(data.objectives[oi], krId)
    IN WeightInputs \cup
       (IF ki = 0 THEN {}
        ELSE {PrefilledWeight(data.objectives[oi].keyResults[ki].weight)})

\* Date.now() when the page is loaded: the day after the saved documents
\* were written.
SessionStart == TicksPerDay

Init ==
    /\ data = [objectives |-> <<>>, history |-> <<>>]
    /\ fileHandle = FALSE
    /\ nextId = 1
    /\ clock = SessionStart
    /\ steps = 0
    /\ booted = FALSE
    /\ file = NoFile
    /\ saveOutcome = "none"
    /\ fileStatus = "none"
    /\ trends = NoChart
    /\ pending = <<>>
    /\ started = <<>>
    /\ origin = EmptyStore
    /\ zone = 0
    /\ page = NoPage

\* Page load: tryRestoreLastFile() and the initial progress snapshots.
\*  - no stored handle: the cache entry, if loadFromLocalStorage() returns
\*    it, becomes `data`, and both recordProgressSnapshot() calls of the
\*    start-up code run on it; otherwise the Document stays empty;
\*  - a stored handle with permission: loadFromFile() replaces `data` by
\*    the file's Document whatever the cache held, and the snapshot of the
\*    `then` callback runs.
\* The cache entry is written by loadFromFile and saveToFile and not read
\* again before the next page load.
PageLoad ==
    /\ ~booted
    /\ booted' = TRUE
    /\ \/ \E text \in CachedTexts :
            LET cachedData == loadFromLocalStorage(text)
            IN /\ IF cachedData.found
                  THEN Commit(recordProgressSnapshot(
                          recordProgressSnapshot(Loaded(cachedData, text), clock),
                          clock))
                  ELSE UNCHANGED <<data, nextId>>
               /\ fileStatus' = updateFileStatus(cachedData.found, FALSE)
               /\ UNCHANGED <<fileHandle, file>>
       \/ \E text \in StoredTexts :
            /\ Commit(recordProgressSnapshot(Loaded(loadFromFile(text), text),
                                             clock))
            /\ fileHandle' = TRUE
            /\ file' = text
            /\ fileStatus' = updateFileStatus(TRUE, TRUE)
    /\ UNCHANGED <<clock, steps, saveOutcome, trends, pending, started, origin,
                   zone, page>>

\* createFile: the picker returns a handle on a new, empty file.
CreateFile ==
    /\ Step
    /\ fileHandle' = TRUE
    /\ data' = EmptyDocument
    /\ \E ok \in WriteMayFail :
          /\ file' = saveToFile([objectives |-> <<>>, history |-> <<>>,
                                 nextId |-> nextId], Unparsable, ok)
          /\ saveOutcome' = IF ok THEN "written" ELSE "failed"
    /\ fileStatus' = updateFileStatus(TRUE, TRUE)
    /\ UNCHANGED <<nextId, booted>>

OpenFile ==
    /\ Step
    /\ \E text \in StoredTexts :
         /\ Commit(Loaded(loadFromFile(text), text))
         /\ file' = text
    /\ fileHandle' = TRUE
    /\ fileStatus' = updateFileStatus(TRUE, TRUE)
    /\ UNCHANGED <<booted, saveOutcome>>

AddObjective ==
    /\ Step
    /\ Len(data.objectives) < MaxObjectives
    /\ \E form \in ObjectiveForms :
         LET r == saveObjective(Store, clock, fileHandle,
                                NewObjectiveForm(form[1], form[2]))
         IN Commit(r) /\ Save(fileHandle, r, WriteSucceeds)
    /\ UNCHANGED <<fileHandle, booted>>

EditObjective ==
    /\ Step
    /\ \E editId \in ObjectiveIds, form \in ObjectiveForms :
         \E weight \in ObjectiveWeightInputs(editId) :
            LET r == saveObjective(Store, clock, fileHandle,
                                   [editId |-> editId, group |-> form[2],
                                    title |-> form[1], weight |-> weight])
            IN Commit(r) /\ Save(fileHandle, r, WriteSucceeds)
    /\ UNCHANGED <<fileHandle, booted>>

DeleteObjective ==
    /\ Step
    /\ \E id \in ObjectiveIds, confirmed \in BOOLEAN :
         IF confirmed
         THEN LET r == deleteObjective(Store, clock, id)
              IN Commit(r) /\ Save(TRUE, r, WriteSucceeds)
         ELSE UNCHANGED <<data, nextId, file, saveOutcome, fileStatus>>
    /\ UNCHANGED <<fileHandle, booted>>

BalanceObjectives ==
    /\ Step
    /\ LET r == balanceObjectiveWeights(Store)
       IN Commit(r) /\ Save(TRUE, r, WriteSucceeds)
    /\ UNCHANGED <<fileHandle, booted>>

AddKeyResult ==
    /\ Step
    /\ \E objectiveId \in ObjectiveIds, form \in KRForms :
         /\ LET oi == FindObjective(Store, objectiveId)
            IN oi # 0 => Len(data.objectives[oi].keyResults) < MaxKRs
         /\ LET r == saveKeyResult(Store, clock, objectiveId, form[1], form[2],
                                   100, form[3], NoId)
            IN /\ Commit(r)
               /\ Save(FindObjective(Store, objectiveId) # 0, r,
                       WriteSucceeds)
    /\ UNCHANGED <<fileHandle, booted>>

EditKeyResult ==
    /\ Step
    /\ \E objectiveId \in ObjectiveIds, form \in KRForms :
         \E editId \in KRIds(objectiveId) :
            \E weight \in KRWeightInputs(objectiveId, editId) :
               LET r == saveKeyResult(Store, clock, objectiveId, form[1],
                                      form[2], weight, form[3], editId)
               IN /\ Commit(r)
               /\ Save(FindObjective(Store, objectiveId) # 0, r,
                       WriteSucceeds)
    /\ UNCHANGED <<fileHandle, booted>>

UpdateKR ==
    /\ Step
    /\ \E objectiveId \in ObjectiveIds, delta \in Deltas :
         \E krId \in KRIds(objectiveId) :
            LET r == updateKR(Store, clock, objectiveId, krId, delta)
                oi == FindObjective(Store, objectiveId)
            IN /\ Commit(r)
               /\ Save(oi # 0 /\ FindKR(data.objectives[oi], krId) # 0, r,
                       WriteMayFail)
    /\ UNCHANGED <<fileHandle, booted>>

DeleteKR ==
    /\ Step
    /\ \E objectiveId \in ObjectiveIds :
         \E krId \in KRIds(objectiveId) :
            LET r == deleteKR(Store, clock, objectiveId, krId)
            IN /\ Commit(r)
               /\ Save(FindObjective(Store, objectiveId) # 0, r,
                       WriteSucceeds)
    /\ UNCHANGED <<fileHandle, booted>>

BalanceKRs ==
    /\ Step
    /\ \E objectiveId \in ObjectiveIds :
         LET r == balanceKRWeights(Store, objectiveId)
         IN Commit(r) /\ Save(TRUE, r, WriteSucceeds)
    /\ UNCHANGED <<fileHandle, booted>>

\* The filters of the individual view that are drawn: every group, or one.
TrendFilterGroups == {"all", "Team"}

\* openProgressTrendsModal, or a change of the view mode or of a filter
\* while the modal is open: renderProgressTrends() draws the chart.
OpenProgressTrends ==
    /\ booted
    /\ steps < MaxSteps
    /\ steps' = steps + 1
    /\ \E viewMode \in {"grouped", "individual"} :
         \E filterGroup \in TrendFilterGroups :
            LET r == renderProgressTrends(Store, viewMode, filterGroup, "all")
            IN /\ Commit(r.data)
               /\ trends' = r.chart
    /\ UNCHANGED <<fileHandle, clock, booted, file, saveOutcome, fileStatus,
                   pending, started, origin, zone, page>>

Next ==
    \/ PageLoad
    \/ CreateFile
    \/ OpenFile
    \/ AddObjective
    \/ EditObjective
    \/ DeleteObjective
    \/ BalanceObjectives
    \/ AddKeyResult
    \/ EditKeyResult
    \/ UpdateKR
    \/ DeleteKR
    \/ BalanceKRs
    \/ OpenProgressTrends

Spec == Init /\ [][Next]_vars

(***************************************************************************)
(* Handlers in flight.  Spec runs every handler to its end, save included, *)
(* before the next one starts.  AsyncSpec runs a handler as the event loop *)
(* does: the part before `await saveToFile()` in one step, and the save in *)
(* two more, between which other handlers may start:                       *)
(*   requested  saveToFile awaits fileHandle.createWritable();             *)
(*   writing    JSON.stringify(data) was taken when createWritable()       *)
(*              resolved, and write() / close() are awaited;               *)
(*   closed     the text replaces the file, and the handler goes on to     *)
(*              renderObjectives().                                        *)
(* pending holds the saves in flight, started the operations in the order  *)
(* their handlers were called, origin the store they started from.         *)
(***************************************************************************)
MaxAsyncOps == 2

Op(kind, objectiveId, krId, delta, title, group, weight, target) ==
    [kind |-> kind, objectiveId |-> objectiveId, krId |-> krId,
     delta |-> delta, title |-> title, group |-> group, weight |-> weight,
     target |-> target, now |-> clock]

\* The handler of op up to its `await saveToFile()`.
RunOp(s, op) ==
    CASE op.kind = "addObjective" ->
            saveObjective(s, op.now, TRUE, NewObjectiveForm(op.title, op.group))
      [] op.kind = "editObjective" ->
            saveObjective(s, op.now, TRUE,
                          [editId |-> op.objectiveId, group |-> op.group,
                           title |-> op.title, weight |-> op.weight])
      [] op.kind = "deleteObjective" ->
            deleteObjective(s, op.now, op.objectiveId)
      [] op.kind = "balanceObjectives" -> balanceObjectiveWeights(s)
      [] op.kind = "addKR" ->
            saveKeyResult(s, op.now, op.objectiveId, op.title, op.target,
                          100, "Medium", NoId)
      [] op.kind = "updateKR" ->
            updateKR(s, op.now, op.objectiveId, op.krId, op.delta)
      [] op.kind = "deleteKR" ->
            deleteKR(s, op.now, op.objectiveId, op.krId)

\* A handler that records its progress snapshot after the save.
AfterSave_RecordsSnapshot(s, op) == recordProgressSnapshot(s, op.now)

\* The handler of op after its `await saveToFile()`: updateDashboardCharts,
\* renderObjectives and closeModal read `data` and write the page.
AfterSave(s, op) == s

\* The store after the operations ops, each run to its end before the next
\* one starts.
RECURSIVE RunAll(_, _)
RunAll(s, ops) ==
    IF ops = <<>> THEN s
    ELSE RunAll(AfterSave(RunOp(s, Head(ops)), Head(ops)), Tail(ops))

\* The files a session with handlers in flight starts on.
AsyncTexts == {JSONStringify(SavedTwo), JSONStringify(SavedThree)}

\* The store after the page load on the stored handle of a file with text.
AsyncOrigin(text) ==
    recordProgressSnapshot([objectives |-> loadFromFile(text).objectives,
                            history |-> loadFromFile(text).history,
                            nextId |-> text.nextId], SessionStart)

AsyncInit ==
    \E text \in AsyncTexts :
       /\ data = [objectives |-> AsyncOrigin(text).objectives,
                  history |-> AsyncOrigin(text).history]
       /\ nextId = AsyncOrigin(text).nextId
       /\ origin = AsyncOrigin(text)
       /\ zone = 0
       /\ page = NoPage
       /\ fileHandle = TRUE
       /\ clock = SessionStart
       /\ steps = 0
       /\ booted = TRUE
       /\ file = text
       /\ saveOutcome = "none"
       /\ fileStatus = updateFileStatus(TRUE, TRUE)
       /\ trends = NoChart
       /\ pending = <<>>
       /\ started = <<>>

\* The handler of op is called: it runs to `await saveToFile()`, and
\* saveToFile to `await fileHandle.createWritable()`.
Start(op) ==
    /\ Len(started) < MaxAsyncOps
    /\ Commit(RunOp(Store, op))
    /\ started' = Append(started, op)
    /\ pending' = Append(pending, [op |-> op, phase |-> "requested",
                                    text |-> NoFile])
    /\ clock' = clock + 1
    /\ UNCHANGED <<fileHandle, steps, booted, file, saveOutcome, fileStatus,
                   trends, origin, zone, page>>

\* The form of an edit that sets the weight of the first objective to 35.
AsyncSaveObjective ==
    \/ Len(data.objectives) < MaxObjectives
          /\ Start(Op("addObjective", NoId, NoId, 0, "B", "Team", 100, 0))
    \/ Len(data.objectives) >= 1
          /\ Start(Op("editObjective", data.objectives[1].id, NoId, 0,
                      data.objectives[1].title, data.objectives[1].group,
                      35, 0))

AsyncDeleteObjective ==
    /\ Len(data.objectives) >= 1
    /\ Start(Op("deleteObjective", data.objectives[1].id, NoId, 0, "", "",
                0, 0))

AsyncBalanceObjectives ==
    /\ booted
    /\ Start(Op("balanceObjectives", NoId, NoId, 0, "", "", 0, 0))

AsyncSaveKeyResult ==
    /\ Len(data.objectives) >= 1
    /\ Len(data.objectives[1].keyResults) < MaxKRs
    /\ Start(Op("addKR", data.objectives[1].id, NoId, 0, "A", "", 100, 80))

AsyncUpdateKR ==
    /\ Len(data.objectives) >= 1
    /\ Len(data.objectives[1].keyResults) >= 1
    /\ \E delta \in Deltas :
          Start(Op("updateKR", data.objectives[1].id,
                   data.objectives[1].keyResults[1].id, delta, "", "", 0, 0))

AsyncDeleteKR ==
    /\ Len(data.objectives) >= 1
    /\ Len(data.objectives[1].keyResults) >= 1
    /\ Start(Op("deleteKR", data.objectives[1].id,
                data.objectives[1].keyResults[1].id, 0, "", "", 0, 0))

\* createWritable() of a save in flight resolves: saveToFile takes
\* JSON.stringify(data) of the Document as it is now.
CreateWritableResolves ==
    \E i \in 1..Len(pending) :
       /\ pending[i].phase = "requested"
       /\ pending' = [pending EXCEPT ![i].phase = "writing",
                                     ![i].text = saveToFile(Store, file, TRUE)]
       /\ UNCHANGED <<data, fileHandle, nextId, clock, steps, booted, file,
                      saveOutcome, fileStatus, trends, started, origin,
                      zone, page>>

\* close() of a save in flight resolves: its text replaces the file, and
\* the handler runs to its end.
WriteCloses ==
    \E i \in 1..Len(pending) :
       /\ pending[i].phase = "writing"
       /\ file' = pending[i].text
       /\ saveOutcome' = "written"
       /\ fileStatus' = updateFileStatus(TRUE, fileHandle)
       /\ Commit(AfterSave(Store, pending[i].op))
       /\ pending' = [j \in 1..(Len(pending) - 1) |->
                         pending[IF j < i THEN j ELSE j + 1]]
       /\ UNCHANGED <<fileHandle, clock, steps, booted, trends, started,
                      origin, zone, page>>

AsyncNext ==
    \/ AsyncSaveObjective
    \/ AsyncDeleteObjective
    \/ AsyncBalanceObjectives
    \/ AsyncSaveKeyResult
    \/ AsyncUpdateKR
    \/ AsyncDeleteKR
    \/ CreateWritableResolves
    \/ WriteCloses

AsyncSpec == AsyncInit /\ [][AsyncNext]_vars

(***************************************************************************)
(* The cards.  RenderSpec draws the cards of a Document with one objective *)
(* for every target date, progress, time of day and time zone of the sets  *)
(* below.                                                                  *)
(***************************************************************************)
\* The calendar day, UTC, on which the page is open.
RenderDay == 10

\* The target-date field: empty, or a day around RenderDay.
TargetDates ==
    {NoDate} \cup {DateString(RenderDay + d) : d \in {-2, -1, 0, 1, 5, 7, 8, 10}}

\* The key result of the objective: its target and current value.
RenderKRs == {<<100, 0>>, <<100, 60>>, <<69, 69>>, <<100, 70>>, <<99, 99>>,
              <<100, 100>>}

\* Offsets of local time from UTC, in ticks.
TimeZones == {-1, 0, 1}

RenderObjective(targetDate, kr) ==
    [id |-> generateId(1), group |-> "Personal", title |-> "A", weight |-> 100,
     keyResults |-> <<[id |-> generateId(2), title |-> "A", target |-> kr[1],
                       current |-> kr[2], weight |-> 100,
                       confidence |-> "Medium", createdAt |-> 0]>>,
     createdAt |-> 0, targetDate |-> targetDate]

RenderInit ==
    /\ \E targetDate \in TargetDates, kr \in RenderKRs :
          data = [objectives |-> <<RenderObjective(targetDate, kr)>>,
                  history |-> <<>>]
    /\ clock \in (RenderDay * TicksPerDay)..(RenderDay * TicksPerDay
                                              + TicksPerDay - 1)
    /\ zone \in TimeZones
    /\ page = NoPage
    /\ nextId = 3
    /\ fileHandle = TRUE
    /\ steps = 0
    /\ booted = TRUE
    /\ file = NoFile
    /\ saveOutcome = "none"
    /\ fileStatus = updateFileStatus(TRUE, TRUE)
    /\ trends = NoChart
    /\ pending = <<>>
    /\ started = <<>>
    /\ origin = EmptyStore

\* renderObjectives() with a file open.
RenderObjectives ==
    /\ fileHandle
    /\ page = NoPage
    /\ page' = renderObjectives(data.objectives, clock, zone)
    /\ UNCHANGED <<data, fileHandle, nextId, clock, steps, booted, file,
                   saveOutcome, fileStatus, trends, pending, started, origin,
                   zone>>

RenderNext == RenderObjectives

RenderSpec == RenderInit /\ [][RenderNext]_vars

(***************************************************************************)
(* Properties.                                                             *)
(***************************************************************************)
ObjectiveWeights(s) == [i \in 1..Len(s.objectives) |-> s.objectives[i].weight]

KRWeights(s, oi) ==
    [j \in 1..Len(s.objectives[oi].keyResults) |->
        s.objectives[oi].keyResults[j].weight]

IdsOf(q) == [i \in 1..Len(q) |-> q[i].id]

EvenlySplit(ws, total) ==
    /\ SumSeq(ws) = total
    /\ \A i, j \in 1..Len(ws) : Abs(ws[i] - ws[j]) <= 1

\* C1: an equal auto-balance (on adding an objective or a key result, or on
\* a Balance request) over n >= 1 siblings leaves weights that sum to exactly
\* 100 and differ pairwise by at most 1; over n = 0 siblings it changes
\* nothing.  Stated of every operation that runs the balance, applied to the
\* Document of every state the program steps from.
C1_EqualBalance ==
    steps < MaxSteps =>
    /\ LET r == balanceObjectiveWeights(Store)
       IN IF Len(data.objectives) = 0 THEN r = Store
          ELSE EvenlySplit(ObjectiveWeights(r), 100)
    /\ \A form \in ObjectiveForms :
          EvenlySplit(ObjectiveWeights(
              saveObjective(Store, clock, TRUE,
                            NewObjectiveForm(form[1], form[2]))), 100)
    /\ \A oi \in 1..Len(data.objectives) :
          LET id == data.objectives[oi].id
          IN /\ LET r == balanceKRWeights(Store, id)
                IN IF Len(data.objectives[oi].keyResults) = 0 THEN r = Store
                   ELSE EvenlySplit(KRWeights(r, oi), 100)
             /\ \A form \in KRForms :
                   EvenlySplit(KRWeights(
                       saveKeyResult(Store, clock, id, form[1], form[2],
                                     100, form[3], NoId), oi), 100)

\* C1 witness: an objective was just added as the third one, and the three
\* carry 34, 33, 33.
C1_Witness ==
    /\ steps = 1
    /\ Len(data.objectives) = 3
    /\ ObjectiveWeights(Store) = <<34, 33, 33>>
    /\ Len(data.history) >= 2
    /\ data.history[2].type = "created"
    /\ data.history[2].itemId = data.objectives[3].id

\* The weights floor(total / k), the first total - k * floor(total / k) of
\* them one higher, for k >= 1 siblings.
SplitOf(total, k) ==
    LET q == total \div k
    IN [p \in 1..k |-> q + (IF p <= total - k * q THEN 1 ELSE 0)]

\* C2: an edit that sets the weight of an objective (of a key result) to a
\* value w different from its prior weight, with k >= 1 other siblings,
\* leaves the edited item at w and the others, in their order, at
\* floor((100 - w) / k), the first (100 - w) - k * floor((100 - w) / k) of
\* them one higher; with no other sibling no other weight changes.  Stated
\* of every such edit of the Document of a state the program steps from.
C2_ManualRebalance ==
    steps < MaxSteps =>
    /\ \A oi \in 1..Len(data.objectives) :
          \A form \in ObjectiveForms, w \in WeightInputs :
             LET id == data.objectives[oi].id
                 r == saveObjective(Store, clock, TRUE,
                                    [editId |-> id, group |-> form[2],
                                     title |-> form[1], weight |-> w])
                 others == SelectSeq(r.objectives, LAMBDA o : o.id # id)
                 k == Len(data.objectives) - 1
             IN w # data.objectives[oi].weight =>
                  /\ IdsOf(r.objectives) = IdsOf(data.objectives)
                  /\ r.objectives[oi].weight = w
                  /\ Len(others) = k
                  /\ k >= 1 =>
                       [p \in 1..k |-> others[p].weight] = SplitOf(100 - w, k)
                  /\ \A i \in 1..Len(data.objectives) :
                       r.objectives[i].keyResults = data.objectives[i].keyResults
    /\ \A oi \in 1..Len(data.objectives) :
          \A ki \in 1..Len(data.objectives[oi].keyResults) :
             \A form \in KRForms, w \in WeightInputs :
                LET krs == data.objectives[oi].keyResults
                    id == krs[ki].id
                    r == saveKeyResult(Store, clock, data.objectives[oi].id,
                                       form[1], form[2], w, form[3], id)
                    rkrs == r.objectives[oi].keyResults
                    others == SelectSeq(rkrs, LAMBDA x : x.id # id)
                    k == Len(krs) - 1
                IN w # krs[ki].weight =>
                     /\ IdsOf(rkrs) = IdsOf(krs)
                     /\ rkrs[ki].weight = w
                     /\ Len(others) = k
                     /\ k >= 1 =>
                          [p \in 1..k |-> others[p].weight] = SplitOf(100 - w, k)
                     /\ ObjectiveWeights(r) = ObjectiveWeights(Store)
                     /\ \A i \in 1..Len(data.objectives) :
                          i # oi => r.objectives[i] = data.objectives[i]

\* C2 witness: the weight of one of three objectives was just edited to 35
\* and the two others hold 33 and 32, in their order.
C2_Witness ==
    /\ steps = 1
    /\ Len(data.objectives) = 3
    /\ Len(data.history) >= 2
    /\ data.history[2].type = "updated"
    /\ data.history[2].itemType = "objective"
    /\ \E oi \in 1..3 :
          /\ data.objectives[oi].id = data.history[2].itemId
          /\ data.objectives[oi].weight = 35
          /\ LET others == SelectSeq(data.objectives,
                                     LAMBDA o : o.id # data.objectives[oi].id)
             IN others[1].weight = 33 /\ others[2].weight = 32

AllKRWeights(s) == [oi \in 1..Len(s.objectives) |-> KRWeights(s, oi)]

\* A form that edits the objective at position oi and leaves its title and
\* group as they are, with weight w.
SameObjectiveForm(oi, w) ==
    [editId |-> data.objectives[oi].id, group |-> data.objectives[oi].group,
     title |-> data.objectives[oi].title, weight |-> w]

\* C3 (as claimed): in every state reached after any completed operation the
\* objectives' weights sum to 100 when there is an objective, and the key
\* results' weights of each objective sum to 100 when it has a key result.
C3_AlwaysSum100 ==
    /\ Len(data.objectives) >= 1 => SumSeq(ObjectiveWeights(Store)) = 100
    /\ \A oi \in 1..Len(data.objectives) :
          Len(data.objectives[oi].keyResults) >= 1 =>
             SumSeq(KRWeights(Store, oi)) = 100

\* C3 (amended): sibling weights sum to 100 immediately after a balancing
\* pass, that is after an add, after a Balance request over at least one
\* sibling, and after an edit that changes an item's weight while another
\* sibling exists.  The operations that run no balancing pass leave the
\* weights of the remaining items as they were: an edit that keeps the
\* weight, an increment or decrement, and a delete (which does not
\* rebalance the siblings that remain).  Stated of every operation applied
\* to the Document of a state the program steps from.
C3_SumAfterBalancingPass ==
    steps < MaxSteps =>
    /\ \A form \in ObjectiveForms :
          LET r == saveObjective(Store, clock, TRUE,
                                 NewObjectiveForm(form[1], form[2]))
          IN SumSeq(ObjectiveWeights(r)) = 100
    /\ Len(data.objectives) >= 1 =>
          SumSeq(ObjectiveWeights(balanceObjectiveWeights(Store))) = 100
    /\ \A oi \in 1..Len(data.objectives) :
          LET obj == data.objectives[oi]
              del == deleteObjective(Store, clock, obj.id)
          IN /\ \A w \in WeightInputs \cup {obj.weight} :
                   LET r == saveObjective(Store, clock, TRUE,
                                          SameObjectiveForm(oi, w))
                   IN /\ (w # obj.weight /\ Len(data.objectives) >= 2)
                            => SumSeq(ObjectiveWeights(r)) = 100
                      /\ w = obj.weight
                            => ObjectiveWeights(r) = ObjectiveWeights(Store)
                      /\ AllKRWeights(r) = AllKRWeights(Store)
             /\ ObjectiveWeights(del) =
                   [i \in 1..(Len(data.objectives) - 1) |->
                       data.objectives[IF i < oi THEN i ELSE i + 1].weight]
             /\ \A form \in KRForms :
                   SumSeq(KRWeights(saveKeyResult(Store, clock, obj.id, form[1],
                                                  form[2], 100, form[3], NoId), oi)) = 100
             /\ Len(obj.keyResults) >= 1 =>
                   SumSeq(KRWeights(balanceKRWeights(Store, obj.id), oi)) = 100
             /\ \A ki \in 1..Len(obj.keyResults) :
                   LET kr == obj.keyResults[ki]
                       delKR == deleteKR(Store, clock, obj.id, kr.id)
                   IN /\ \A w \in WeightInputs \cup {kr.weight} :
                            LET r == saveKeyResult(Store, clock, obj.id,
                                                   kr.title, kr.target, w,
                                                   PrefilledConfidence(kr.confidence),
                                                   kr.id)
                            IN /\ (w # kr.weight /\ Len(obj.keyResults) >= 2)
                                     => SumSeq(KRWeights(r, oi)) = 100
                               /\ w = kr.weight
                                     => KRWeights(r, oi) = KRWeights(Store, oi)
                               /\ ObjectiveWeights(r) = ObjectiveWeights(Store)
                      /\ \A delta \in Deltas :
                            LET r == updateKR(Store, clock, obj.id, kr.id, delta)
                            IN /\ ObjectiveWeights(r) = ObjectiveWeights(Store)
                               /\ AllKRWeights(r) = AllKRWeights(Store)
                      /\ KRWeights(delKR, oi) =
                            [j \in 1..(Len(obj.keyResults) - 1) |->
                                obj.keyResults[IF j < ki THEN j ELSE j + 1].weight]

\* C3 witness: the weight of a key result with two siblings was just edited
\* to 35, and the three weights sum to 100.
C3_Witness ==
    /\ steps = 1
    /\ Len(data.history) >= 2
    /\ data.history[2].type = "updated"
    /\ data.history[2].itemType = "keyresult"
    /\ \E oi \in 1..Len(data.objectives) :
          /\ Len(data.objectives[oi].keyResults) = 3
          /\ \E ki \in 1..3 :
                /\ data.objectives[oi].keyResults[ki].id = data.history[2].itemId
                /\ data.objectives[oi].keyResults[ki].weight = 35
          /\ SumSeq(KRWeights(Store, oi)) = 100

\* C4 (as claimed): every objective weight and every key-result weight is an
\* integer in 0..100 in every reachable state.
C4_WeightsWithin0And100 ==
    /\ \A oi \in 1..Len(data.objectives) :
          /\ data.objectives[oi].weight \in 0..100
          /\ \A ki \in 1..Len(data.objectives[oi].keyResults) :
                data.objectives[oi].keyResults[ki].weight \in 0..100

\* C5 (as claimed): every key result whose target is positive has
\* 0 <= current <= target, in every reachable state.
C5_CurrentWithinTarget ==
    \A oi \in 1..Len(data.objectives) :
       \A ki \in 1..Len(data.objectives[oi].keyResults) :
          LET kr == data.objectives[oi].keyResults[ki]
          IN kr.target > 0 => (0 <= kr.current /\ kr.current <= kr.target)

\* C6: the history log never holds more than 1000 entries.
C6_HistoryAtMostCap == Len(data.history) <= HistoryCap

\* C6 witness: an append has taken the log past 1000 entries and it was cut
\* back to 1000: the oldest entry of the loaded log, a `created` entry, is
\* gone and the next oldest is at the tail.
C6_Witness ==
    /\ steps = 1
    /\ Len(data.history) = HistoryCap
    /\ data.history[1].type = "progress-snapshot"
    /\ data.history[2].type = "created"
    /\ data.history[HistoryCap] = SavedFull.history[Len(SavedFull.history) - 1]

\* C7 (as claimed): a key result whose target is 0 has the progress 0, and
\* the progress of every objective is a number (not NaN, not infinite).
C7_ZeroTargetIsZeroPercent ==
    \A oi \in 1..Len(data.objectives) :
       /\ calculateProgress(data.objectives[oi]).k = "num"
       /\ \A ki \in 1..Len(data.objectives[oi].keyResults) :
             LET kr == data.objectives[oi].keyResults[ki]
             IN kr.target = 0 => krProgress(kr.current, kr.target) = Num(0)

\* The progress percentage of one key result as the claim describes it:
\* round(current / target * 100) clamped to 0..100.
ClampedPercent(kr) ==
    Max(0, Min(100, RoundDiv(100 * kr.current, kr.target)))

\* The key results of the objective all have a positive target and a current
\* value within 0..target.
WellFormedKRs(obj) ==
    \A ki \in 1..Len(obj.keyResults) :
       /\ obj.keyResults[ki].target > 0
       /\ obj.keyResults[ki].current \in 0..obj.keyResults[ki].target

\* C8 (as claimed): the progress of an objective is 0 without key results and
\* otherwise the mean of its key results' individually rounded and clamped
\* percentages, rounded to the nearest integer and capped at 100.
C8_MeanOfRoundedPercentages ==
    \A oi \in 1..Len(data.objectives) :
       LET obj == data.objectives[oi]
           n == Len(obj.keyResults)
       IN WellFormedKRs(obj) =>
             calculateProgress(obj) =
                (IF n = 0 THEN Num(0)
                 ELSE Num(Min(100, RoundDiv(
                         SumSeq([ki \in 1..n |-> ClampedPercent(obj.keyResults[ki])]),
                         n))))

\* C8 (amended): the progress of an objective is 0 without key results.  When
\* no target is 0 it is the mean of the raw ratios current / target * 100,
\* neither rounded nor clamped one by one, rounded once to the nearest
\* integer (a half rounds up) and capped at 100, with no lower cap.  When a
\* target is 0 the division gives NaN, -Infinity or a result capped to 100.
C8_MeanOfRawRatios ==
    \A oi \in 1..Len(data.objectives) :
       LET obj == data.objectives[oi]
           krs == obj.keyResults
           n == Len(krs)
           p == calculateProgress(obj)
           twiceSum == 2 * RatioNum(krs)
           unit == n * RatioDen(krs)
       IN IF n = 0 THEN p = Num(0)
          ELSE IF \E ki \in 1..n : krs[ki].target = 0
          THEN p \in {NaN, NegInf, Num(100)}
          ELSE /\ p.k = "num"
               /\ p.v <= 100
               /\ (2 * p.v - 1) * unit <= twiceSum
               /\ p.v < 100 => twiceSum < (2 * p.v + 1) * unit

\* C8 witness: the first snapshot after a load holds an objective with the key
\* results 10/80 (13%) and 0/5 (0%) whose recorded progress is 6, the rounded
\* mean of 12.5 and 0, where the mean of 13 and 0 rounds to 7.
C8_Witness ==
    /\ booted
    /\ Len(data.history) >= 1
    /\ data.history[1].type = "progress-snapshot"
    /\ \E i \in 1..Len(data.history[1].changes.snapshot.objectives) :
          LET o == data.history[1].changes.snapshot.objectives[i]
          IN /\ Len(o.keyResults) = 2
             /\ o.keyResults[1].current = 10 /\ o.keyResults[1].target = 80
             /\ o.keyResults[1].progress = Num(13)
             /\ o.keyResults[2].current = 0 /\ o.keyResults[2].target = 5
             /\ o.progress = Num(6)

\* C9 (as claimed): the progress of every objective is a number between 0 and
\* 100, in every reachable state.
C9_ProgressWithin0And100 ==
    \A oi \in 1..Len(data.objectives) :
       LET p == calculateProgress(data.objectives[oi])
       IN p.k = "num" /\ 0 <= p.v /\ p.v <= 100

\* C10 (as claimed): editing or deleting an objective, and editing, deleting,
\* incrementing or decrementing a key result, under an id that does not
\* exist leaves objectives and history unchanged.
C10_StaleIdIsNoOp ==
    /\ \A form \in ObjectiveForms : \A w \in WeightInputs :
          saveObjective(Store, clock, fileHandle,
                        [editId |-> StaleId, group |-> form[2],
                         title |-> form[1], weight |-> w]) = Store
    /\ deleteObjective(Store, clock, StaleId) = Store
    /\ \A objectiveId \in ObjectiveIds :
          /\ \A form \in KRForms : \A w \in WeightInputs :
                saveKeyResult(Store, clock, objectiveId, form[1], form[2], w, form[3],
                              StaleId) = Store
          /\ deleteKR(Store, clock, objectiveId, StaleId) = Store
          /\ \A delta \in Deltas :
                updateKR(Store, clock, objectiveId, StaleId, delta) = Store

\* The operation that produced r from the current Document appended a
\* progress snapshot as its last history entry.
SnapshotAppended(r) ==
    /\ r.nextId > nextId
    /\ Len(r.history) >= 1
    /\ r.history[1].type = "progress-snapshot"
    /\ r.history[1].id = generateId(r.nextId - 1)

\* r comes from an operation that changed the objectives: when it leaves an
\* objective, it appended a progress snapshot.
SnapshotIfMutated(r) ==
    (r.objectives # data.objectives /\ Len(r.objectives) >= 1)
        => SnapshotAppended(r)

SnapshotPositions(history) ==
    {i \in 1..Len(history) : history[i].type = "progress-snapshot"}

\* C12 (as claimed): the history never holds two progress snapshots whose
\* timestamps fall on the same calendar day.
C12_OneSnapshotPerDay ==
    \A i, j \in SnapshotPositions(data.history) :
       i # j => ISODate(data.history[i].timestamp)
                   # ISODate(data.history[j].timestamp)

\* The <<id, createdAt>> pairs of the objectives and key results of a store.
Stamps(s) ==
    {<<s.objectives[oi].id, s.objectives[oi].createdAt>> :
        oi \in 1..Len(s.objectives)}
    \cup UNION {{<<s.objectives[oi].keyResults[ki].id,
                   s.objectives[oi].keyResults[ki].createdAt>> :
                    ki \in 1..Len(s.objectives[oi].keyResults)} :
                oi \in 1..Len(s.objectives)}

\* In r, the result of an operation at the current time on the current
\* Document, every entity the Document already held has the createdAt it
\* had, and every new entity has today's date.
KeepsStamps(r) ==
    \A p \in Stamps(r) :
       IF \E q \in Stamps(Store) : q[1] = p[1]
       THEN p \in Stamps(Store)
       ELSE p[2] = ISODate(clock)

\* r is the result of an edit: the ids of the objectives, and of the key
\* results of each objective, are those of the current Document, in order.
KeepsIds(r) ==
    /\ IdsOf(r.objectives) = IdsOf(data.objectives)
    /\ \A oi \in 1..Len(data.objectives) :
          IdsOf(r.objectives[oi].keyResults) = IdsOf(data.objectives[oi].keyResults)

\* C13: createdAt is set when an objective or key result is added and no
\* later add, edit, rebalance, increment, decrement or delete of a sibling
\* changes it; an edit changes no id, and an edit of an objective leaves its
\* keyResults as they are.
C13_CreatedAtAndIdsKept ==
    steps < MaxSteps =>
    /\ \A form \in ObjectiveForms :
          KeepsStamps(saveObjective(Store, clock, TRUE,
                                    NewObjectiveForm(form[1], form[2])))
    /\ KeepsStamps(balanceObjectiveWeights(Store))
    /\ \A oi \in 1..Len(data.objectives) :
          LET obj == data.objectives[oi]
          IN /\ \A form \in ObjectiveForms : \A w \in WeightInputs :
                   LET r == saveObjective(Store, clock, TRUE,
                                          [editId |-> obj.id, group |-> form[2],
                                           title |-> form[1], weight |-> w])
                   IN /\ KeepsStamps(r)
                      /\ KeepsIds(r)
                      /\ r.objectives[oi].keyResults = obj.keyResults
             /\ KeepsStamps(deleteObjective(Store, clock, obj.id))
             /\ KeepsStamps(balanceKRWeights(Store, obj.id))
             /\ \A form \in KRForms :
                   KeepsStamps(saveKeyResult(Store, clock, obj.id, form[1],
                                             form[2], 100, form[3], NoId))
             /\ \A ki \in 1..Len(obj.keyResults) :
                   LET kr == obj.keyResults[ki]
                   IN /\ \A form \in KRForms : \A w \in WeightInputs :
                            LET r == saveKeyResult(Store, clock, obj.id, form[1],
                                                   form[2], w, form[3], kr.id)
                            IN KeepsStamps(r) /\ KeepsIds(r)
                      /\ \A delta \in Deltas :
                            KeepsStamps(updateKR(Store, clock, obj.id, kr.id, delta))
                      /\ KeepsStamps(deleteKR(Store, clock, obj.id, kr.id))

\* C13 witness: an objective created on an earlier day has just been edited
\* (the `updated` entry is of today) and still has the earlier createdAt.
C13_Witness ==
    /\ steps = 1
    /\ Len(data.history) >= 2
    /\ data.history[2].type = "updated"
    /\ data.history[2].itemType = "objective"
    /\ ISODate(data.history[2].timestamp) = ISODate(SessionStart)
    /\ \E oi \in 1..Len(data.objectives) :
          /\ data.objectives[oi].id = data.history[2].itemId
          /\ data.objectives[oi].createdAt < ISODate(SessionStart)

\* The sequence q without its element at position i.
Without(q, i) ==
    [j \in 1..(Len(q) - 1) |-> q[IF j < i THEN j ELSE j + 1]]

\* C14: deleting an objective removes it with its key results and leaves the
\* other objectives and their key results as they were; it logs one
\* `deleted` entry, for the objective, and none for its key results (the
\* only other entry it appends is the progress snapshot, when an objective
\* remains).
C14_DeleteObjectiveCascade ==
    steps < MaxSteps =>
    \A oi \in 1..Len(data.objectives) :
       LET obj == data.objectives[oi]
           r == deleteObjective(Store, clock, obj.id)
           n == IF Len(data.objectives) > 1 THEN 2 ELSE 1
       IN /\ r.objectives = Without(data.objectives, oi)
          /\ Len(r.history) = Min(HistoryCap, Len(data.history) + n)
          /\ SubSeq(r.history, n + 1, Len(r.history))
                = SubSeq(data.history, 1, Len(r.history) - n)
          /\ r.history[n].type = "deleted"
          /\ r.history[n].itemType = "objective"
          /\ r.history[n].itemId = obj.id
          /\ r.history[n].itemTitle = obj.title
          /\ n = 2 => r.history[1].type = "progress-snapshot"

\* C14 witness: the first objective of the loaded document, which had two
\* key results, has just been deleted; the other objective remains and no
\* entry of this session is about a key result.
C14_Witness ==
    /\ steps = 1
    /\ Len(data.objectives) = 1
    /\ data.objectives[1] = SavedTwo.objectives[2]
    /\ Len(data.history) >= 2
    /\ data.history[2].type = "deleted"
    /\ data.history[2].itemType = "objective"
    /\ data.history[2].itemId = SavedTwo.objectives[1].id
    /\ Len(SavedTwo.objectives[1].keyResults) = 2
    /\ \A i \in 1..Len(data.history) :
          data.history[i].timestamp = clock - 1
             => data.history[i].itemType # "keyresult"

(***************************************************************************)
(* C15.  Loading.                                                          *)
(***************************************************************************)

\* C15: loading never fails loudly.  A persisted document without the
\* history property, or without the objectives property, loads with that
\* property an empty sequence and the other one as persisted; unparsable or
\* unreadable input gives the empty Document from loadFromFile and no
\* Document from loadFromLocalStorage, which leaves `data` the empty
\* Document of the start.  Stated of every text, and of the state a load
\* leaves: right after the page load, and whenever the open file is one
\* that cannot be read or parsed.
C15_LoadingNeverFails ==
    /\ \A text \in StoredTexts \cup CachedTexts :
          LET d == loadFromFile(text)
              c == loadFromLocalStorage(text)
          IN /\ DOMAIN d = {"objectives", "history"}
             /\ text.k # "json" => d = EmptyDocument /\ ~c.found
             /\ text.k = "json" =>
                   /\ c.found
                   /\ d.objectives = c.objectives /\ d.history = c.history
                   /\ d.objectives =
                         (IF text.hasObjectives THEN text.objectives ELSE <<>>)
                   /\ d.history =
                         (IF text.hasHistory THEN text.history ELSE <<>>)
    /\ (fileHandle /\ file.k \in {"unreadable", "unparsable"})
          => data = EmptyDocument
    /\ (booted /\ steps = 0 /\ file.k = "json") =>
          /\ data.objectives =
                (IF file.hasObjectives THEN file.objectives ELSE <<>>)
          /\ LET persisted == IF file.hasHistory THEN file.history ELSE <<>>
                 n == Len(data.history) - Len(persisted)
             IN /\ n \in {0, 1}
                /\ SubSeq(data.history, n + 1, Len(data.history)) = persisted
    /\ (booted /\ steps = 0 /\ ~fileHandle /\ Len(data.objectives) = 0)
          => data = EmptyDocument

\* C15 witness: the page was loaded on the stored handle of a file that
\* has no history property; the objectives are the persisted ones and the
\* history holds the start-up snapshot alone.
C15_Witness ==
    /\ booted /\ steps = 0 /\ fileHandle
    /\ file = LegacyText
    /\ data.objectives = LegacyText.objectives
    /\ Len(data.objectives) = 2
    /\ Len(data.history) = 1
    /\ data.history[1].type = "progress-snapshot"

(***************************************************************************)
(* C16.  A failed save.                                                    *)
(***************************************************************************)

\* C16 (as claimed): when the save that follows an in-memory mutation
\* fails, the failure is surfaced: the operation does not complete
\* indistinguishably from a successful one, so the in-memory Document and
\* the persisted one never diverge silently.  saveToFile returns nothing to
\* its caller on either path, so the one thing that could tell the two
\* apart is the file status it sets; saveOutcome records what the last
\* write did.
C16_FailedSaveSurfaced ==
    (fileHandle /\ saveOutcome = "failed" /\ loadFromFile(file) # data)
       => fileStatus # updateFileStatus(TRUE, fileHandle)

(***************************************************************************)
(* C17.  Trend views.                                                      *)
(***************************************************************************)

\* C17: the grouped and the individual trend view are pure reads: drawing
\* either one, under any filter, leaves data.history (its entries, their
\* order and their contents) and data.objectives as they were.  Stated of
\* renderProgressTrends applied to the Document of every state the program
\* steps from.
C17_TrendViewsArePureReads ==
    steps < MaxSteps =>
       \A viewMode \in {"grouped", "individual"} :
          \A filterGroup \in {"all"} \cup {TrendGroups[g] : g \in 1..3} :
             \A filterObjective \in {"all"} \cup ObjectiveIds :
                LET r == renderProgressTrends(Store, viewMode, filterGroup,
                                              filterObjective)
                IN /\ r.data.history = data.history
                   /\ r.data.objectives = data.objectives
                   /\ r.data.nextId = nextId

\* C17 witness: the grouped view was just drawn with at least two data
\* points in one series, from a history that is not in ascending order of
\* timestamp, the order the view sorts its points into.
C17_Witness ==
    /\ steps = 1
    /\ trends.k = "grouped"
    /\ \E g \in 1..Len(trends.series) : Len(trends.series[g].dataPoints) >= 2
    /\ SortByTimestamp(data.history) # data.history
    /\ trends = renderProgressTrends(Store, "grouped", "all", "all").chart

(***************************************************************************)
(* C18.  Positions of an equal auto-balance.                               *)
(***************************************************************************)

\* The weight of the sibling at position i, counted from 0, of n >= 1.
EqualShare(n, i) ==
    (100 \div n) + (IF i < 100 - n * (100 \div n) THEN 1 ELSE 0)

\* ws is the equal balance of its length, position by position.
EquallyShared(ws) == \A p \in 1..Len(ws) : ws[p] = EqualShare(Len(ws), p - 1)

\* C18: an equal auto-balance over n >= 1 siblings gives the sibling at
\* position i (from 0, in the order of the collection) the weight
\* floor(100 / n) + 1 if i < 100 - n * floor(100 / n) and floor(100 / n)
\* otherwise, so the remainder goes to the earliest siblings; three
\* objectives receive 34, 33, 33 in order.  Stated of a Balance request
\* and of an add, of objectives and of key results, on the Document of
\* every state the program steps from; the siblings keep their order.
C18_RemainderToEarliest ==
    steps < MaxSteps =>
    /\ LET r == balanceObjectiveWeights(Store)
       IN /\ EquallyShared(ObjectiveWeights(r))
          /\ IdsOf(r.objectives) = IdsOf(data.objectives)
          /\ Len(data.objectives) = 3 => ObjectiveWeights(r) = <<34, 33, 33>>
    /\ \A form \in ObjectiveForms :
          LET r == saveObjective(Store, clock, TRUE,
                                 NewObjectiveForm(form[1], form[2]))
          IN /\ EquallyShared(ObjectiveWeights(r))
             /\ Len(r.objectives) = Len(data.objectives) + 1
             /\ SubSeq(IdsOf(r.objectives), 1, Len(data.objectives))
                   = IdsOf(data.objectives)
    /\ \A oi \in 1..Len(data.objectives) :
          LET obj == data.objectives[oi]
          IN /\ LET r == balanceKRWeights(Store, obj.id)
                IN /\ EquallyShared(KRWeights(r, oi))
                   /\ IdsOf(r.objectives[oi].keyResults) = IdsOf(obj.keyResults)
             /\ \A form \in KRForms :
                   LET r == saveKeyResult(Store, clock, obj.id, form[1],
                                          form[2], 100, form[3], NoId)
                   IN /\ EquallyShared(KRWeights(r, oi))
                      /\ Len(r.objectives[oi].keyResults)
                            = Len(obj.keyResults) + 1
                      /\ SubSeq(IdsOf(r.objectives[oi].keyResults), 1,
                                Len(obj.keyResults)) = IdsOf(obj.keyResults)

\* C18 witness: a key result was just added as the third of its objective,
\* and the three carry 34, 33, 33 in order, the added one last.
C18_Witness ==
    /\ steps = 1
    /\ Len(data.history) >= 2
    /\ data.history[2].type = "created"
    /\ data.history[2].itemType = "keyresult"
    /\ \E oi \in 1..Len(data.objectives) :
          /\ Len(data.objectives[oi].keyResults) = 3
          /\ data.objectives[oi].keyResults[3].id = data.history[2].itemId
          /\ KRWeights(Store, oi) = <<34, 33, 33>>

(***************************************************************************)
(* C19.  Order of the history log.                                         *)
(***************************************************************************)

\* new is old with k entries put in front of it, cut to the first 1000:
\* what new keeps of old is a prefix of old, in order, and what is dropped
\* is the tail.
FrontAppended(old, new, k) ==
    /\ Len(new) = Min(HistoryCap, Len(old) + k)
    /\ SubSeq(new, k + 1, Len(new)) = SubSeq(old, 1, Len(new) - k)

\* C19: every history append puts the new entry at the front of the log,
\* so the log is ordered newest-first by append order; when an append takes
\* the length past 1000 the entry removed is the one at the tail, the
\* earliest appended, and the entries that remain keep their order.  Stated
\* of one and of two appends to the log of every reachable state, and of
\* the appends the handlers make from a state the program steps from.
C19_AppendAtFrontEvictTail ==
    LET r1 == addHistoryEntry(Store, clock, "deleted", "objective", StaleId,
                              "A", [kind |-> "deleted"], "Personal")
        r2 == addHistoryEntry(r1, clock + 1, "deleted", "keyresult", StaleId,
                              "B", [kind |-> "deleted"], "Personal")
    IN /\ FrontAppended(data.history, r1.history, 1)
       /\ r1.history[1].id = generateId(nextId)
       /\ r1.history[1].itemTitle = "A"
       /\ FrontAppended(data.history, r2.history, 2)
       /\ r2.history[1].id = generateId(nextId + 1)
       /\ r2.history[1].itemTitle = "B"
       /\ Len(r2.history) >= 2 /\ r2.history[2] = r1.history[1]
       /\ Len(data.history) = HistoryCap =>
             /\ r1.history[HistoryCap] = data.history[HistoryCap - 1]
             /\ \A i \in 1..HistoryCap :
                   r1.history[i].id # data.history[HistoryCap].id
       /\ steps < MaxSteps =>
             /\ \A form \in ObjectiveForms :
                   LET r == saveObjective(Store, clock, TRUE,
                                          NewObjectiveForm(form[1], form[2]))
                   IN /\ FrontAppended(data.history, r.history, 2)
                      /\ r.history[2].type = "created"
                      /\ r.history[1].type = "progress-snapshot"
             /\ \A oi \in 1..Len(data.objectives) :
                   LET obj == data.objectives[oi]
                       del == deleteObjective(Store, clock, obj.id)
                       k == IF Len(data.objectives) = 1 THEN 1 ELSE 2
                   IN /\ FrontAppended(data.history, del.history, k)
                      /\ del.history[k].type = "deleted"
                      /\ \A ki \in 1..Len(obj.keyResults) :
                            \A delta \in Deltas :
                               LET r == updateKR(Store, clock, obj.id,
                                                 obj.keyResults[ki].id, delta)
                               IN \E n \in 0..2 :
                                     FrontAppended(data.history, r.history, n)

\* C19 witness: an objective was just added to a log of 999 entries; the
\* `created` entry and the snapshot appended after it are at the front, the
\* snapshot first, the 998 newest entries of the loaded log follow in
\* their order, and its oldest entry is gone.
C19_Witness ==
    /\ steps = 1
    /\ Len(SavedFull.history) = HistoryCap - 1
    /\ Len(data.history) = HistoryCap
    /\ data.history[1].type = "progress-snapshot"
    /\ data.history[2].type = "created"
    /\ Len(data.objectives) = 1
    /\ data.history[2].itemId = data.objectives[1].id
    /\ SubSeq(data.history, 3, HistoryCap)
          = SubSeq(SavedFull.history, 1, HistoryCap - 2)
    /\ \A i \in 1..HistoryCap :
          data.history[i].id # SavedFull.history[HistoryCap - 1].id

(***************************************************************************)
(* C20.  What an edit logs.                                                *)
(***************************************************************************)

\* The `updated` entries of a log.
UpdatedEntries(history) ==
    {i \in 1..Len(history) : history[i].type = "updated"}

\* C20 (as claimed): an edit of an objective or key result that changes
\* nothing produces no `updated` entry, and every `updated` entry lists
\* exactly the tracked fields whose old and new values differ, an absent
\* field counting as its default; in particular no logged change has from
\* equal to to.  Stated of the log of every reachable state, and of the
\* edit that submits the form as openKRModal and openEditObjectiveModal
\* fill it, for every item whose weight is not 0.
C20_EditLogsRealChangesOnly ==
    /\ \A i \in UpdatedEntries(data.history) :
          LET fields == data.history[i].changes.fields
          IN /\ Len(fields) > 0
             /\ \A f \in 1..Len(fields) : fields[f].from # fields[f].to
    /\ \A oi \in 1..Len(data.objectives) :
          LET obj == data.objectives[oi]
              logged == Cardinality(UpdatedEntries(data.history))
          IN /\ obj.weight # 0 =>
                   Cardinality(UpdatedEntries(
                      saveObjective(Store, clock, TRUE,
                                    SameObjectiveForm(oi, obj.weight)).history))
                      <= logged
             /\ \A ki \in 1..Len(obj.keyResults) :
                   LET kr == obj.keyResults[ki]
                   IN (kr.weight # 0 /\ kr.current <= kr.target) =>
                         Cardinality(UpdatedEntries(
                            saveKeyResult(Store, clock, obj.id, kr.title,
                                          kr.target, kr.weight,
                                          PrefilledConfidence(kr.confidence),
                                          kr.id).history))
                            <= logged

(***************************************************************************)
(* C21.  The payload of a progress snapshot.                               *)
(***************************************************************************)

\* The progress-snapshot entries of a log.
SnapshotEntries(history) ==
    {i \in 1..Len(history) : history[i].type = "progress-snapshot"}

\* C21 (as claimed): every progress-snapshot entry has itemType "system"
\* and group "all".
C21_SnapshotGroupIsAll ==
    \A i \in SnapshotEntries(data.history) :
       /\ data.history[i].itemType = "system"
       /\ data.history[i].group = "all"

\* C21 (amended): every progress-snapshot entry has itemType "system",
\* itemId "all", itemTitle "Progress Snapshot" and the group null, and its
\* payload holds, keyed by id, objectives with title, group and progress
\* and, for each key result, title, progress, current and target; the
\* snapshot recorded on the Document of any state the program steps from
\* holds exactly the objectives live then, in their order, each with its title, its
\* group (Personal when it has none), the progress calculateProgress gives
\* it, and all its key results.
C21_SnapshotPayload ==
    /\ \A i \in SnapshotEntries(data.history) :
          LET e == data.history[i]
          IN /\ e.itemType = "system"
             /\ e.itemId = "all"
             /\ e.itemTitle = "Progress Snapshot"
             /\ e.group = NullGroup
             /\ e.changes.snapshot.timestamp = e.timestamp
             /\ \A o \in 1..Len(e.changes.snapshot.objectives) :
                   LET obj == e.changes.snapshot.objectives[o]
                   IN /\ DOMAIN obj =
                            {"id", "title", "group", "progress", "keyResults"}
                      /\ \A k \in 1..Len(obj.keyResults) :
                            DOMAIN obj.keyResults[k] =
                               {"id", "title", "progress", "current", "target"}
    /\ steps < MaxSteps =>
       LET r == recordProgressSnapshot(Store, clock)
       IN IF Len(data.objectives) = 0 THEN r = Store
          ELSE LET e == r.history[1]
                   captured == e.changes.snapshot.objectives
               IN /\ e.type = "progress-snapshot"
                  /\ e.timestamp = clock
                  /\ IdsOf(captured) = IdsOf(data.objectives)
                  /\ \A o \in 1..Len(captured) :
                        LET obj == data.objectives[o]
                        IN /\ captured[o].title = obj.title
                           /\ captured[o].group = OrDefault(obj.group, "Personal")
                           /\ captured[o].progress = calculateProgress(obj)
                           /\ IdsOf(captured[o].keyResults) = IdsOf(obj.keyResults)
                           /\ \A k \in 1..Len(obj.keyResults) :
                                 LET kr == obj.keyResults[k]
                                     c == captured[o].keyResults[k]
                                 IN /\ c.title = kr.title
                                    /\ c.current = kr.current
                                    /\ c.target = kr.target
                                    /\ c.progress =
                                          krProgress(kr.current, kr.target)

\* C21 witness: an operation has just recorded a snapshot of three live
\* objectives, one of them without key results and one with; the snapshot
\* is the newest entry and holds the three ids in order.
C21_Witness ==
    /\ steps = 1
    /\ Len(data.objectives) = 3
    /\ Len(data.history) >= 1
    /\ data.history[1].type = "progress-snapshot"
    /\ data.history[1].timestamp = clock - 1
    /\ data.history[1].group = NullGroup
    /\ IdsOf(data.history[1].changes.snapshot.objectives)
          = IdsOf(data.objectives)
    /\ \E o \in 1..3 : Len(data.objectives[o].keyResults) = 0
    /\ \E o \in 1..3 :
          /\ Len(data.objectives[o].keyResults) > 0
          /\ Len(data.history[1].changes.snapshot.objectives[o].keyResults)
                = Len(data.objectives[o].keyResults)

(***************************************************************************)
(* C22.  The grouped trend view.                                           *)
(***************************************************************************)

\* The captured objectives of the history entry e that are of the group
\* and whose id is the id of a live objective.
Surviving(e, group) ==
    SelectSeq(e.changes.snapshot.objectives,
              LAMBDA o : o.group = group
                            /\ \E i \in 1..Len(data.objectives) :
                                  data.objectives[i].id = o.id)

\* The point the grouped view owes the group for the snapshot entry e.  The
\* mean is stated where every captured progress is a number.
PointMatches(point, e, group) ==
    LET objs == Surviving(e, group)
    IN /\ point.timestamp = e.timestamp
       /\ point.count = Len(objs)
       /\ (\A o \in 1..Len(objs) : objs[o].progress.k = "num") =>
             point.progress =
                Num(RoundDiv(SumSeq([o \in 1..Len(objs) |-> objs[o].progress.v]),
                             Len(objs)))

\* C22: in the grouped trend view a group gets a series only if a live
\* objective is of that group now; for each progress snapshot the point of
\* the group is the rounded mean progress of the captured objectives of
\* that group whose id is still live, with their count; a snapshot with no
\* such objective gives the group no point; each series is in
\* chronological order of the snapshots' timestamps (snapshots of one
\* timestamp in the order of the log).  Stated of the view drawn from the
\* Document of every state the program steps from.
C22_GroupedTrendSeries ==
    steps < MaxSteps =>
       LET chart == renderProgressTrends(Store, "grouped", "all", "all").chart
           snaps == SelectSeq(data.history,
                              LAMBDA h : h.type = "progress-snapshot")
           live == {data.objectives[i].group : i \in 1..Len(data.objectives)}
           owed(group) ==
               IF group \in live
               THEN SelectSeq(snaps, LAMBDA h : Len(Surviving(h, group)) > 0)
               ELSE <<>>
       IN /\ chart.k \in {"grouped", "empty"}
          /\ chart.k = "empty" <=>
                \A g \in 1..3 : owed(TrendGroups[g]) = <<>>
          /\ chart.k = "grouped" =>
                /\ Len(chart.series) = 3
                /\ \A g \in 1..3 :
                      LET group == TrendGroups[g]
                          points == chart.series[g].dataPoints
                          times == {snaps[i].timestamp : i \in 1..Len(snaps)}
                      IN /\ chart.series[g].group = group
                         /\ Len(points) = Len(owed(group))
                         /\ \A p \in 1..(Len(points) - 1) :
                               points[p].timestamp <= points[p + 1].timestamp
                         /\ \A t \in times :
                               LET at == SelectSeq(points,
                                            LAMBDA x : x.timestamp = t)
                                   from == SelectSeq(owed(group),
                                              LAMBDA h : h.timestamp = t)
                               IN /\ Len(at) = Len(from)
                                  /\ \A p \in 1..Len(at) :
                                        PointMatches(at[p], from[p], group)

\* C22 witness: the grouped view was just drawn from a log whose snapshots
\* hold a Personal objective that was deleted since: the Personal series
\* has a point of count 1 for a snapshot that captured two Personal
\* objectives, the Company group has no series, and the points of an
\* earlier day come before those of today.
C22_Witness ==
    /\ steps = 1
    /\ trends.k = "grouped"
    /\ trends = renderProgressTrends(Store, "grouped", "all", "all").chart
    /\ trends.series[3].dataPoints = <<>>
    /\ \E i \in 1..Len(data.history) :
          /\ data.history[i].type = "progress-snapshot"
          /\ Cardinality({o \in 1..Len(data.history[i].changes.snapshot.objectives) :
                 data.history[i].changes.snapshot.objectives[o].group
                    = "Personal"}) = 2
          /\ Len(Surviving(data.history[i], "Personal")) = 1
    /\ \A p \in 1..Len(trends.series[1].dataPoints) :
          trends.series[1].dataPoints[p].count = 1
    /\ LET points == trends.series[1].dataPoints
       IN /\ Len(points) >= 2
          /\ points[1].timestamp < points[Len(points)].timestamp

(***************************************************************************)
(* C23.  Serialization of the mutating operations.                         *)
(***************************************************************************)

\* C23 (as claimed): no mutating operation begins while an earlier one, its
\* save included, has not completed, so two saves of the Document are
\* never in flight at the same time.
C23_SavesNeverOverlap == Len(pending) <= 1

(***************************************************************************)
(* C28.  The in-memory Document under interleaved handlers.                *)
(***************************************************************************)

LogsOnlyItem(r, id) ==
    \E k \in 0..2 :
       /\ FrontAppended(data.history, r.history, k)
       /\ Cardinality({i \in 1..k : r.history[i].type # "progress-snapshot"})
             <= 1
       /\ \A i \in 1..k :
             r.history[i].type # "progress-snapshot"
                => r.history[i].itemId = id

\* C24: an edit that sets a new weight and rebalances the siblings, and
\* an add that balances all siblings equally, put a change entry in the
\* history for the edited or added item only; no `updated` entry is
\* appended for a sibling whose weight the balancer changed.  Stated of
\* every edit and add the handlers make from a state the program steps
\* from.
C24_OnlyEditedItemLogged ==
    steps < MaxSteps =>
       /\ \A form \in ObjectiveForms :
             LogsOnlyItem(saveObjective(Store, clock, TRUE,
                                        NewObjectiveForm(form[1], form[2])),
                          generateId(nextId))
       /\ \A editId \in ObjectiveIds \ {StaleId}, form \in ObjectiveForms :
             \A weight \in ObjectiveWeightInputs(editId) :
                LogsOnlyItem(saveObjective(Store, clock, TRUE,
                                           [editId |-> editId,
                                            group |-> form[2],
                                            title |-> form[1],
                                            weight |-> weight]),
                             editId)
       /\ \A objectiveId \in ObjectiveIds \ {StaleId}, form \in KRForms :
             /\ LogsOnlyItem(saveKeyResult(Store, clock, objectiveId, form[1],
                                           form[2], 100, form[3], NoId),
                             generateId(nextId))
             /\ \A editId \in KRIds(objectiveId) \ {StaleId} :
                   \A weight \in KRWeightInputs(objectiveId, editId) :
                      LogsOnlyItem(saveKeyResult(Store, clock, objectiveId,
                                                 form[1], form[2], weight,
                                                 form[3], editId),
                                   editId)

\* C24 witness: the weight of one key result of the saved document was
\* just edited; the balancer changed the weight of a sibling, and the one
\* change entry of the step is the `updated` entry of the edited key
\* result.
C24_Witness ==
    /\ steps = 1
    /\ Len(data.objectives) = Len(SavedTwo.objectives)
    /\ Len(data.history) >= 2
    /\ data.history[1].type = "progress-snapshot"
    /\ data.history[2].type = "updated"
    /\ data.history[2].itemType = "keyresult"
    /\ \E f \in 1..Len(data.history[2].changes.fields) :
          data.history[2].changes.fields[f].field = "weight"
    /\ \E oi \in 1..Len(data.objectives) :
          /\ Len(data.objectives[oi].keyResults)
                = Len(SavedTwo.objectives[oi].keyResults)
          /\ \E ki, kj \in 1..Len(data.objectives[oi].keyResults) :
                /\ ki # kj
                /\ data.objectives[oi].keyResults[ki].id
                      = data.history[2].itemId
                /\ data.objectives[oi].keyResults[kj].id
                      = SavedTwo.objectives[oi].keyResults[kj].id
                /\ data.objectives[oi].keyResults[kj].weight
                      # SavedTwo.objectives[oi].keyResults[kj].weight
                /\ \A i \in 1..Len(data.history) :
                      data.history[i].timestamp >= SessionStart
                         => data.history[i].itemId
                               # data.objectives[oi].keyResults[kj].id

(***************************************************************************)
(* C25.  History entries are immutable.                                    *)
(***************************************************************************)

\* A step that replaces the Document by another one.
LoadsDocument == PageLoad \/ CreateFile \/ OpenFile

\* The log after the step is the log before it with at most two entries
\* put in front and the excess over 1000 cut from the tail: every entry
\* that remains is field for field the entry that was appended.
HistoryKept ==
    \E k \in 0..2 : FrontAppended(data.history, data.history', k)

\* C25: a history entry, once appended, stays in the log with the same id,
\* timestamp, type, itemType, itemId, itemTitle, changes and group in
\* every later state of the same Document, whether the item is renamed or
\* deleted later, until it is dropped from the tail of a log of more than
\* 1000 entries.
C25_HistoryEntriesImmutable == [][LoadsDocument \/ HistoryKept]_vars

\* C25 witness: an objective of the saved document was just renamed or
\* deleted, and its `created` entry still carries the title under which
\* it was created.
C25_Witness ==
    /\ steps = 1
    /\ Len(data.history) >= 3
    /\ data.history[1].type = "progress-snapshot"
    /\ data.history[2].type \in {"updated", "deleted"}
    /\ data.history[2].itemType = "objective"
    /\ \E i \in 3..Len(data.history) :
          /\ data.history[i].type = "created"
          /\ data.history[i].itemId = data.history[2].itemId
          /\ data.history[i].itemTitle = "A"
          /\ \A oi \in 1..Len(data.objectives) :
                data.objectives[oi].id = data.history[i].itemId
                   => data.objectives[oi].title = "B"

(***************************************************************************)
(* C26, C27.  Outline of the card and warning class of the due-date badge. *)
(***************************************************************************)

\* The calendar day it is for the user when the cards are drawn.
LocalToday == FloorDiv(clock + zone, TicksPerDay)

\* The objective card i was drawn for.
CardObjective(i) == data.objectives[i]

\* C26 (as claimed): the outline of a card is overdue-red when the target
\* date is before today and progress < 70, overdue-yellow when it is before
\* today and progress >= 70, on-track-blue when it is today or later and
\* 70 <= progress < 100, complete-green when it is today or later and
\* progress >= 100, and none when there is no target date or it is today or
\* later and progress < 70.
C26_ObjectiveOutline ==
    \A i \in 1..Len(page) :
       LET obj == CardObjective(i)
           progress == calculateProgress(obj).v
           before == obj.targetDate.day < LocalToday
       IN page[i].overdueClass =
             IF obj.targetDate.k = "none" THEN ""
             ELSE IF before /\ progress < 70 THEN " objective-overdue"
             ELSE IF before THEN " objective-overdue-yellow"
             ELSE IF progress < 70 THEN ""
             ELSE IF progress < 100 THEN " objective-overdue-blue"
             ELSE " objective-overdue-complete"

\* C27 (as claimed): the due-date badge is red when the target date is
\* before today, yellow when it is 0 to 7 days after today, and plain when
\* it is 8 or more days after today or no target date is set.
C27_DateWarning ==
    \A i \in 1..Len(page) :
       LET obj == CardObjective(i)
           diffDays == obj.targetDate.day - LocalToday
       IN page[i].dateWarning =
             IF obj.targetDate.k = "none" THEN ""
             ELSE IF diffDays < 0 THEN " date-warning-red"
             ELSE IF diffDays <= 7 THEN " date-warning-yellow"
             ELSE ""

(***************************************************************************)
(* C29.  The history entries of one operation.                             *)
(***************************************************************************)

ChangeTypes == {"created", "updated", "progress", "deleted"}

\* The step put k entries in front of the log.
Appended(k) == FrontAppended(data.history, data.history', k)

\* C29 (as claimed): an operation that appends a change entry appends it
\* before its progress snapshot, so that after the operation the snapshot
\* is the newest entry and the change entry is directly behind it.
C29_ChangeEntryBehindSnapshot ==
    [][LoadsDocument
        \/ \A k \in 1..2 :
              (Appended(k) /\ data.history'[k].type \in ChangeTypes)
                 => /\ k = 2
                    /\ data.history'[1].type = "progress-snapshot"]_vars

\* C29 (amended): one operation puts at most two entries in front of the
\* log.  When it puts two, the newest is its progress snapshot and the one
\* directly behind it its change entry.  When it puts one, that is its
\* snapshot, or, when the operation deleted the last objective, its
\* `deleted` entry, which no snapshot follows.  A snapshot holds the
\* objectives as they are after the operation, and a step that writes the
\* file writes the log with the entries of the step in it.
C29_EntriesOfOneOperation ==
    [][LoadsDocument
        \/ \E k \in 0..2 :
              /\ Appended(k)
              /\ k = 2 => /\ data.history'[1].type = "progress-snapshot"
                          /\ data.history'[2].type \in ChangeTypes
              /\ (k = 1 /\ data.history'[1].type # "progress-snapshot")
                    => /\ data.history'[1].type = "deleted"
                       /\ data.history'[1].itemType = "objective"
                       /\ data.objectives' = <<>>
              /\ (k >= 1 /\ data.history'[1].type = "progress-snapshot")
                    => /\ data.objectives' # <<>>
                       /\ data.history'[1].changes.snapshot
                             = SnapshotOf(data.objectives', clock)
              /\ file' # file
                    => file' = JSONStringify([objectives |-> data.objectives',
                                              history |-> data.history',
                                              nextId |-> nextId'])]_vars

\* C29 witness: a key result was just deleted; the log starts with the
\* snapshot, which no longer holds the key result, the `deleted` entry of
\* the key result is directly behind it, and the file holds both.
C29_Witness ==
    /\ steps = 1
    /\ Len(data.history) >= 3
    /\ data.history[1].type = "progress-snapshot"
    /\ data.history[2].type = "deleted"
    /\ data.history[2].itemType = "keyresult"
    /\ data.history[3].type = "progress-snapshot"
    /\ \E i \in 1..Len(data.history[3].changes.snapshot.objectives) :
          \E j \in 1..Len(data.history[3].changes.snapshot.objectives[i]
                                                          .keyResults) :
             data.history[3].changes.snapshot.objectives[i].keyResults[j].id
                = data.history[2].itemId
    /\ \A i \in 1..Len(data.history[1].changes.snapshot.objectives) :
          \A j \in 1..Len(data.history[1].changes.snapshot.objectives[i]
                                                          .keyResults) :
             data.history[1].changes.snapshot.objectives[i].keyResults[j].id
                # data.history[2].itemId
    /\ saveOutcome = "written"
    /\ file = JSONStringify(Store)

(***************************************************************************)
(* C30.  The extended variant refines the baseline variant.                *)
(***************************************************************************)

\* A key result and an objective as the baseline variant holds them:
\* without the confidence field.
BaselineKR(kr) ==
    [id |-> kr.id, title |-> kr.title, target |-> kr.target,
     current |-> kr.current, weight |-> kr.weight, createdAt |-> kr.createdAt]

BaselineObjectives(objectives) ==
    [i \in 1..Len(objectives) |->
        [objectives[i] EXCEPT !.keyResults =
            [j \in 1..Len(objectives[i].keyResults) |->
                BaselineKR(objectives[i].keyResults[j])]]]

\* The store of the baseline variant that matches the current state: the
\* objectives without confidence, and generateId() about to return the
\* value it returns in the extended variant.
BaselineStore ==
    [objectives |-> BaselineObjectives(data.objectives), nextId |-> nextId]

\* The extended result ext and the baseline result base hold the same
\* objectives: order, ids, titles, groups, weights, current and target
\* values and creation dates.
SameObjectives(ext, base) ==
    BaselineObjectives(ext.objectives) = base.objectives

\* C30: with confidence and history ignored, every operation of the
\* extended variant changes the objectives as the same operation of the
\* baseline variant does; from the empty Document, which both variants
\* start with, the two therefore hold the same objectives after every
\* sequence of operations.  Stated of every operation, with every input
\* of the handlers, applied to the Document of every state the program
\* steps from and to its baseline counterpart.
C30_ExtendedRefinesBaseline ==
    steps < MaxSteps =>
       /\ \A form \in ObjectiveForms :
             SameObjectives(
                saveObjective(Store, clock, TRUE,
                              NewObjectiveForm(form[1], form[2])),
                BaselineSaveObjective(BaselineStore, clock, TRUE,
                                      NewObjectiveForm(form[1], form[2])))
       /\ SameObjectives(balanceObjectiveWeights(Store),
                         balanceObjectiveWeights(BaselineStore))
       /\ \A id \in ObjectiveIds :
             /\ SameObjectives(deleteObjective(Store, clock, id),
                               BaselineDeleteObjective(BaselineStore, id))
             /\ SameObjectives(balanceKRWeights(Store, id),
                               balanceKRWeights(BaselineStore, id))
             /\ \A form \in ObjectiveForms :
                   \A weight \in ObjectiveWeightInputs(id) :
                      LET formData == [editId |-> id, group |-> form[2],
                                       title |-> form[1], weight |-> weight]
                      IN SameObjectives(
                            saveObjective(Store, clock, TRUE, formData),
                            BaselineSaveObjective(BaselineStore, clock, TRUE,
                                                  formData))
             /\ \A form \in KRForms :
                   /\ SameObjectives(
                         saveKeyResult(Store, clock, id, form[1], form[2],
                                       100, form[3], NoId),
                         BaselineSaveKeyResult(BaselineStore, clock, id,
                                               form[1], form[2], 100, NoId))
                   /\ \A krId \in KRIds(id) :
                         \A weight \in KRWeightInputs(id, krId) :
                            SameObjectives(
                               saveKeyResult(Store, clock, id, form[1],
                                             form[2], weight, form[3], krId),
                               BaselineSaveKeyResult(BaselineStore, clock, id,
                                                     form[1], form[2], weight,
                                                     krId))
             /\ \A krId \in KRIds(id) :
                   /\ SameObjectives(deleteKR(Store, clock, id, krId),
                                     BaselineDeleteKR(BaselineStore, id, krId))
                   /\ \A delta \in Deltas :
                         SameObjectives(
                            updateKR(Store, clock, id, krId, delta),
                            BaselineUpdateKR(BaselineStore, id, krId, delta))

\* C30 witness: the first key result of the saved document, at 10 of 80,
\* was just decremented; the extended variant has logged the change and
\* recorded a snapshot, and its objectives are those the baseline variant
\* computes from the saved objectives: the key result is at 0.
C30_Witness ==
    /\ steps = 1
    /\ Len(data.history) = Len(SavedTwo.history) + 3
    /\ data.history[1].type = "progress-snapshot"
    /\ data.history[2].type = "progress"
    /\ data.objectives # SavedTwo.objectives
    /\ data.objectives[1].keyResults[1].current = 0
    /\ BaselineObjectives(data.objectives)
          = BaselineUpdateKR(
               [objectives |-> BaselineObjectives(SavedTwo.objectives),
                nextId |-> SavedTwo.nextId],
               SavedTwo.objectives[1].id,
               SavedTwo.objectives[1].keyResults[1].id,
               -StepDelta).objectives

====
